---- MODULE Spec2Model ----
(***************************************************************************)
(* Model of the dual-repository worktree engine of wt                      *)
(* (internal/mattermost.go, internal/worktree.go, cmd/checkout.go,         *)
(* cmd/rm.go, cmd/clean.go).                                               *)
(*                                                                         *)
(* The specifications share the variables:                                 *)
(*   Spec        the worktree lifecycle: runMattermostCheckout (with the   *)
(*               nested CreateMattermostDualWorktree and its rollback) and *)
(*               RemoveMattermostDualWorktree, acting on the directories,  *)
(*               the two repositories' worktree registries and branches;   *)
(*   SpecPorts   GetAvailablePortsWithRand applied to arbitrary inputs;    *)
(*   SpecConfig  updateConfigPorts / ExtractPortPairFromConfig applied to  *)
(*               arbitrary config files;                                   *)
(*   SpecFiles   CreateMattermostDualWorktree over every outcome of the    *)
(*               file mappings of copyMattermostFiles;                     *)
(*   SpecClassify IsMattermostDualWorktree on arbitrary directory listings;*)
(*   SpecCopy    copyFilesExcept / copyDir on arbitrary source trees;      *)
(*   SpecClean   RunClean (wt clean) on arbitrary worktree listings and    *)
(*               answers to its prompt;                                    *)
(*   SpecSteps   two CreateMattermostDualWorktree /                        *)
(*               RemoveMattermostDualWorktree calls interleaved step by    *)
(*               step;                                                     *)
(*   SpecPaths   GetMattermostWorktreePath on arbitrary pairs of branch    *)
(*               names.                                                    *)
(***************************************************************************)
EXTENDS Integers, Sequences, FiniteSets, TLC

VARIABLES fs, reg, heads, last, calls, pa, cf, fm, cl, cp, cn, pr, bp

vars == <<fs, reg, heads, last, calls, pa, cf, fm, cl, cp, cn, pr, bp>>

(***************************************************************************)
(* Port constants (part_012, lines 16-38).  The source range is 8100..8999;*)
(* the model keeps the start and narrows the range to PortSpan + 1 ports,  *)
(* all arithmetic staying relative to PortRangeStart and PortRangeEnd.     *)
(***************************************************************************)
PortRangeStart == 8100

PortSpan == 5

PortRangeEnd == PortRangeStart + PortSpan

MainRepoPort == 8065

MetricsPortOffset == 2

PortRandomRetries == 50

ExcludedPorts == {MainRepoPort, MainRepoPort + 2}

\* Fallback ports of runMattermostCheckout when no port was determined.
DefaultServerPort == 8066

DefaultMetricsPort == 8068

(***************************************************************************)
(* JSON values as encoding/json decodes them into interface{}: null,       *)
(* strings, numbers, booleans, arrays and objects (maps from key to value).*)
(* A string is a text followed by optional decimal digits (d = -1: none),  *)
(* so that formatting a port into an address and scanning it back are      *)
(* different functions.  A number is the integer e * 2^53 + k with e in    *)
(* {0, 1} and k small, so that the integers a float64 holds exactly and    *)
(* the first ones it does not are both present.                            *)
(***************************************************************************)
JNull == [t |-> "null"]

JStr(p, d) == [t |-> "str", p |-> p, d |-> d]

JNum(e, k) == [t |-> "num", e |-> e, k |-> k]

JBool(b) == [t |-> "bool", b |-> b]

JArr == [t |-> "arr"]

JObj(f) == [t |-> "obj", f |-> f]

EmptyMap == [k \in {} |-> JNull]

IsObj(v) == v.t = "obj"

Put(m, key, v) == [k \in DOMAIN m \cup {key} |-> IF k = key THEN v ELSE m[k]]

\* fmt.Sprintf(":%d", port)
ListenAddressOf(port) == JStr(":", port)

\* fmt.Sprintf("http://localhost:%d", port)
SiteURLOf(port) == JStr("http://localhost:", port)

\* fmt.Sscanf(s, ":%d", &port): the text must be ':' followed by digits; on
\* any mismatch the destination keeps its zero value.
ScanPort(v) == IF v.t = "str" /\ v.p = ":" /\ v.d >= 0 THEN v.d ELSE 0

(***************************************************************************)
(* A config file: its top-level JSON kind, the decoded tree when it is an  *)
(* object, and its layout (key order and indentation), which json.Marshal- *)
(* Indent normalises.  NoFile is a missing file.                           *)
(***************************************************************************)
NoFile == [kind |-> "absent"]

ObjectFile(tree, layout) == [kind |-> "object", tree |-> tree, layout |-> layout]

RawFile(kind) == [kind |-> kind]

\* The float64 a JSON number decodes to (nearest, ties to even): integers
\* below 2^53 are exact; from 2^53 to 2^54 only even integers exist, and an
\* odd one goes to the neighbour whose mantissa is even.
Float64(v) ==
    IF v.e = 0 \/ v.k % 2 = 0 THEN v
    ELSE JNum(v.e, IF (v.k - 1) % 4 = 0 THEN v.k - 1 ELSE v.k + 1)

\* A value as json.Unmarshal stores it in an interface{}: numbers become
\* float64, objects map[string]interface{} of decoded values.
RECURSIVE DecodeValue(_)
DecodeValue(v) ==
    IF v.t = "num" THEN Float64(v)
    ELSE IF v.t = "obj" THEN JObj([k \in DOMAIN v.f |-> DecodeValue(v.f[k])])
    ELSE v

\* json.Unmarshal(data, &config) with config a map[string]interface{}: a
\* syntax error or a top-level array or scalar is an error; the literal
\* null is accepted and leaves the map nil.
Unmarshal(file) ==
    CASE file.kind = "object" ->
            [err |-> FALSE, nil |-> FALSE,
             config |-> [k \in DOMAIN file.tree |-> DecodeValue(file.tree[k])]]
      [] file.kind = "null"   -> [err |-> FALSE, nil |-> TRUE, config |-> EmptyMap]
      [] OTHER                -> [err |-> TRUE, nil |-> FALSE, config |-> EmptyMap]

\* json.MarshalIndent(config, "", "    "): keys sorted, four-space indent;
\* a float64 holding an integer is written as that integer.
MarshalIndent(config) == ObjectFile(config, "indent4")

\* config[key].(map[string]interface{}): the subtree and whether it is one.
SubtreeOf(config, key) ==
    IF key \in DOMAIN config /\ IsObj(config[key])
    THEN [ok |-> TRUE, m |-> config[key].f]
    ELSE [ok |-> FALSE, m |-> EmptyMap]

\* A port update that touches ServiceSettings only where it is an object
\* already.
SetServicePorts_OnlyIfPresent(config, serverPort) ==
    IF SubtreeOf(config, "ServiceSettings").ok
    THEN Put(config, "ServiceSettings",
             JObj(Put(Put(config["ServiceSettings"].f, "ListenAddress",
                          ListenAddressOf(serverPort)),
                      "SiteURL", SiteURLOf(serverPort))))
    ELSE config

\* The two "get or create, then set" blocks of updateConfigPorts on the
\* decoded map.
SetServicePorts(config, serverPort) ==
    LET serviceSettings == SubtreeOf(config, "ServiceSettings").m
        withListen == Put(serviceSettings, "ListenAddress", ListenAddressOf(serverPort))
        withSite == Put(withListen, "SiteURL", SiteURLOf(serverPort))
    IN  Put(config, "ServiceSettings", JObj(withSite))

\* A port update that leaves MetricsSettings as it finds it.
SetMetricsPort_Skipped(config, metricsPort) == config

SetMetricsPort(config, metricsPort) ==
    LET metricsSettings == SubtreeOf(config, "MetricsSettings").m
        withListen == Put(metricsSettings, "ListenAddress", ListenAddressOf(metricsPort))
    IN  Put(config, "MetricsSettings", JObj(withListen))

\* updateConfigPorts(configPath, serverPort, metricsPort).  io is what the
\* filesystem does: "ok", "read_err" (os.ReadFile fails) or "write_err"
\* (os.WriteFile fails).  Storing a created subtree into a nil map panics.
updateConfigPorts(file, serverPort, metricsPort, io) ==
    IF file.kind = "absent" \/ io = "read_err"
    THEN [status |-> "error", file |-> file]
    ELSE LET u == Unmarshal(file) IN
         IF u.err THEN [status |-> "error", file |-> file]
         ELSE IF u.nil /\ ~SubtreeOf(u.config, "ServiceSettings").ok
         THEN [status |-> "panic", file |-> file]
         ELSE LET updated == SetMetricsPort(SetServicePorts(u.config, serverPort),
                                            metricsPort)
              IN  IF io = "write_err"
                  THEN [status |-> "error", file |-> file]
                  ELSE [status |-> "ok", file |-> MarshalIndent(updated)]

\* json.Unmarshal into MattermostServerConfig: a known key holding anything
\* but an object or null is a type error; null leaves the field nil.
StructFieldOk(tree, key) ==
    key \notin DOMAIN tree \/ tree[key].t \in {"obj", "null"}

ListenPortOf(tree, key) ==
    LET sub == SubtreeOf(tree, key).m
    IN  IF "ListenAddress" \in DOMAIN sub THEN ScanPort(sub["ListenAddress"]) ELSE 0

\* ExtractPortPairFromConfig(configPath)
ExtractPortPairFromConfig(file) ==
    IF file.kind # "object" THEN <<0, 0>>
    ELSE IF ~(StructFieldOk(file.tree, "ServiceSettings")
              /\ StructFieldOk(file.tree, "MetricsSettings"))
    THEN <<0, 0>>
    ELSE <<ListenPortOf(file.tree, "ServiceSettings"),
           ListenPortOf(file.tree, "MetricsSettings")>>

\* A config.json as the server ships it, listening on the given ports.
ConfigRecording(serverPort, metricsPort) ==
    ObjectFile(
        [k \in {"ServiceSettings", "MetricsSettings"} |->
            IF k = "ServiceSettings"
            THEN JObj([f \in {"ListenAddress", "SiteURL"} |->
                        IF f = "ListenAddress" THEN ListenAddressOf(serverPort)
                        ELSE SiteURLOf(serverPort)])
            ELSE JObj([f \in {"ListenAddress"} |->
                        ListenAddressOf(metricsPort)])],
        "compact")

(***************************************************************************)
(* Repositories, branch names and paths.  A branch name is a sequence of   *)
(* pieces, each either one character that SanitizeBranchName replaces or a *)
(* run of other characters.                                                *)
(***************************************************************************)
Repos == {"mattermost", "enterprise"}

ReplacedChars == {"/", "\\", ":", "*", "?", "\"", "<", ">", "|"}

\* strings.NewReplacer("/", "-", "\\", "-", ...).Replace(branch)
SanitizeBranchName(branch) ==
    [i \in DOMAIN branch |-> IF branch[i] \in ReplacedChars THEN "-" ELSE branch[i]]

\* Branches a caller asks worktrees for.
Branches == {<<"a", "/", "b">>, <<"c">>}

Main == <<"main">>

Release == <<"release-1.0">>

NoBranch == <<>>

\* GetMattermostWorktreePath(branch): WorktreeBasePath/mattermost-<sanitized>;
\* a LogicalWorktree directory is identified by the sanitized name.
GetMattermostWorktreePath(branch) == SanitizeBranchName(branch)

Dirs == {GetMattermostWorktreePath(b) : b \in Branches}

(***************************************************************************)
(* The world the tool acts on:                                             *)
(*   fs[d]     the LogicalWorktree directory d: whether it exists, what    *)
(*             its mattermost-<d> and enterprise-<d> subdirectories are    *)
(*             ("none": no such subdirectory, or what its .git is, see     *)
(*             GitMarkers), and the file server/config/config.json of the  *)
(*             mattermost unit;                                            *)
(*   reg[r][d] repository r's worktree bookkeeping for the unit path under *)
(*             d: the branch checked out there, or NoBranch;               *)
(*   heads[r]  repository r's local and remote-tracking branches.          *)
(***************************************************************************)
NoUnits == [r \in Repos |-> "none"]

Absent == [exists |-> FALSE, unit |-> NoUnits, config |-> NoFile]

EmptyDir == [exists |-> TRUE, unit |-> NoUnits, config |-> NoFile]

\* What path/.git is for a directory path:
\*   "plain"       nothing: the directory has no .git entry;
\*   "worktree"    a regular file "gitdir: <repo>/.git/worktrees/<name>", the
\*                 reference git worktree add writes;
\*   "gitdir"      a regular file starting with "gitdir:" that refers to
\*                 something else (a submodule's git directory, any path);
\*   "text"        a regular file with other content;
\*   "repository"  a directory: the path is an ordinary clone.
GitMarkers == {"plain", "worktree", "gitdir", "text", "repository"}

\* A unit check that takes any .git entry for a worktree's.
isGitWorktree_AnyMarker(unit) == unit \in GitMarkers \ {"plain"}

\* isGitWorktree(path): os.Stat(path/.git) succeeds and .git is a regular
\* file whose content starts with "gitdir:", or is a directory.
isGitWorktree(unit) == unit \in {"worktree", "gitdir", "repository"}

\* An entry of a directory listing: its name, split into the prefix the
\* classification looks at ("mattermost" for mattermost-*, "enterprise"
\* for enterprise-*, "other") and the rest; its type ("dir", "file" or
\* "symlink", for which entry.IsDir() is false even if it leads to a
\* directory); and, for what the name leads to, its .git.
Entry(prefix, rest, type, git) ==
    [prefix |-> prefix, rest |-> rest, type |-> type, git |-> git]

\* A classification for which a unit of either repository is enough.
RECURSIVE ScanEntries_EitherUnit(_, _, _)
ScanEntries_EitherUnit(entries, hasMattermost, hasEnterprise) ==
    IF entries = {} THEN hasMattermost \/ hasEnterprise
    ELSE LET entry == CHOOSE e \in entries : TRUE
             found == entry.type = "dir" /\ isGitWorktree(entry.git)
         IN  ScanEntries_EitherUnit(
                 entries \ {entry},
                 hasMattermost \/ (found /\ entry.prefix = "mattermost"),
                 hasEnterprise \/ (found /\ entry.prefix = "enterprise"))

\* The loop of IsMattermostDualWorktree over the entries not yet visited,
\* and its return value.
RECURSIVE ScanEntries(_, _, _)
ScanEntries(entries, hasMattermost, hasEnterprise) ==
    IF entries = {} THEN hasMattermost /\ hasEnterprise
    ELSE LET entry == CHOOSE e \in entries : TRUE
             found == entry.type = "dir" /\ isGitWorktree(entry.git)
         IN  ScanEntries(
                 entries \ {entry},
                 hasMattermost \/ (found /\ entry.prefix = "mattermost"),
                 hasEnterprise \/ (found /\ entry.prefix = "enterprise"))

\* The listing of LogicalWorktree directory dir, which holds at most the
\* two subdirectories the tool creates.
EntriesOf(dir) ==
    {Entry(r, "", "dir", dir.unit[r]) : r \in {x \in Repos : dir.unit[x] # "none"}}

\* IsMattermostDualWorktree(worktreePath) on a LogicalWorktree directory:
\* os.ReadDir fails on a missing directory.
IsMattermostDualWorktree(dir) ==
    dir.exists /\ ScanEntries(EntriesOf(dir), FALSE, FALSE)

\* A prune that drops nothing.
WorktreePrune_KeepsStaleEntries(w, r) == w

\* git worktree prune: drops the entries whose unit directory is gone.
WorktreePrune(w, r) ==
    [w EXCEPT !.reg[r] =
        [d \in Dirs |-> IF w.fs[d].exists /\ w.fs[d].unit[r] # "none"
                        THEN w.reg[r][d] ELSE NoBranch]]

\* git worktree add refuses a path that is registered or present, and a
\* branch that the main working tree or another registered worktree has
\* checked out.
CanAddWorktree(w, r, d, branch) ==
    /\ w.fs[d].exists
    /\ branch # w.heads[r].current
    /\ w.fs[d].unit[r] = "none"
    /\ w.reg[r][d] = NoBranch
    /\ \A d2 \in Dirs : w.reg[r][d2] # branch

\* git worktree add [-b branch] path start: the unit appears on disk, in the
\* registry, and the branch exists locally afterwards.
WorktreeAdd(w, r, d, branch) ==
    [w EXCEPT !.fs[d].unit[r] = "worktree",
              !.reg[r][d] = branch,
              !.heads[r].local = @ \cup {branch}]

\* removeWorktreeFromRepo(repoPath, worktreePath, force): git worktree
\* remove [-f]; gitOk is FALSE when git refuses (uncommitted changes
\* without force, a locked worktree, ...).
CanRemoveWorktree(w, r, d, gitOk) ==
    gitOk /\ w.reg[r][d] # NoBranch /\ w.fs[d].exists /\ w.fs[d].unit[r] # "none"

removeWorktreeFromRepo(w, r, d, gitOk) ==
    IF CanRemoveWorktree(w, r, d, gitOk)
    THEN [w EXCEPT !.fs[d].unit[r] = "none",
                   !.fs[d].config = IF r = "mattermost" THEN NoFile ELSE @,
                   !.reg[r][d] = NoBranch]
    ELSE w

\* A stat that finds only valid dual worktrees.
Stat_OnlyDualWorktrees(w, d) == IsMattermostDualWorktree(w.fs[d])

\* os.Stat(targetDir) returns no error: something is at the path.
Stat(w, d) == w.fs[d].exists

\* A RemoveAll that deletes nothing.
RemoveAll_DeletesNothing(w, d) == w

\* os.RemoveAll(targetDir)
RemoveAll(w, d) == [w EXCEPT !.fs[d] = Absent]

\* GetDefaultBranch(): origin/HEAD if set, else main or master if present,
\* else the current branch.
GetDefaultBranch(h) ==
    IF h.originHead # NoBranch THEN h.originHead
    ELSE IF Main \in h.local THEN Main
    ELSE IF <<"master">> \in h.local THEN <<"master">>
    ELSE IF h.current # NoBranch THEN h.current
    ELSE Main

Origin(branch) == <<"origin/">> \o branch

\* A unit creation that starts a new branch at the repository's default
\* branch, whatever base was asked for.
createWorktreeForRepo_StartsAtDefault(w, r, branch, baseBranch, d, gitOk) ==
    LET h == w.heads[r]
        mode == IF branch \in h.local THEN "existing"
                ELSE IF branch \in h.remote THEN "track" ELSE "base"
        start == IF mode = "existing" THEN branch
                 ELSE IF mode = "track" THEN Origin(branch)
                 ELSE GetDefaultBranch(h)
    IN  IF gitOk /\ CanAddWorktree(w, r, d, branch)
        THEN [ok |-> TRUE, w |-> WorktreeAdd(w, r, d, branch), mode |-> mode,
              start |-> start, err |-> "none", tried |-> {}]
        ELSE [ok |-> FALSE, w |-> w, mode |-> mode, start |-> start,
              err |-> "git", tried |-> {}]

\* A unit creation that hands the base to git worktree add without
\* verifying it; git refuses a start point it cannot resolve.
createWorktreeForRepo_UnverifiedBase(w, r, branch, baseBranch, d, gitOk) ==
    LET h == w.heads[r]
        mode == IF branch \in h.local THEN "existing"
                ELSE IF branch \in h.remote THEN "track" ELSE "base"
        start == IF mode = "existing" THEN branch
                 ELSE IF mode = "track" THEN Origin(branch)
                 ELSE baseBranch
        resolves == mode # "base" \/ baseBranch \in h.local
    IN  IF gitOk /\ resolves /\ CanAddWorktree(w, r, d, branch)
        THEN [ok |-> TRUE, w |-> WorktreeAdd(w, r, d, branch), mode |-> mode,
              start |-> start, err |-> "none", tried |-> {}]
        ELSE [ok |-> FALSE, w |-> w, mode |-> mode, start |-> start,
              err |-> "git", tried |-> {}]

\* A unit creation that looks at the remote before the local branches.
createWorktreeForRepo_RemoteFirst(w, r, branch, baseBranch, d, gitOk) ==
    LET h == w.heads[r]
        mode == IF branch \in h.remote THEN "track"
                ELSE IF branch \in h.local THEN "existing" ELSE "base"
        baseFound == baseBranch \in h.local \/ baseBranch \in h.remote
        start == IF mode = "track" THEN Origin(branch)
                 ELSE IF mode = "existing" THEN branch
                 ELSE IF baseBranch \in h.local THEN baseBranch
                 ELSE Origin(baseBranch)
    IN  IF mode = "base" /\ ~baseFound
        THEN [ok |-> FALSE, w |-> w, mode |-> mode, start |-> NoBranch,
              err |-> "base_not_found",
              tried |-> {baseBranch, Origin(baseBranch)}]
        ELSE IF gitOk /\ CanAddWorktree(w, r, d, branch)
        THEN [ok |-> TRUE, w |-> WorktreeAdd(w, r, d, branch), mode |-> mode,
              start |-> start, err |-> "none", tried |-> {}]
        ELSE [ok |-> FALSE, w |-> w, mode |-> mode, start |-> start,
              err |-> "git", tried |-> {}]

\* createWorktreeForRepo(repo, branch, baseBranch, worktreePath).  gitOk is
\* FALSE when git worktree add fails for a reason outside the model.  tried
\* are the forms of the base the error message names.
createWorktreeForRepo(w, r, branch, baseBranch, d, gitOk) ==
    LET h == w.heads[r]
        localExists == branch \in h.local
        remoteExists == branch \in h.remote
        mode == IF localExists THEN "existing"
                ELSE IF remoteExists THEN "track" ELSE "base"
        baseFound == baseBranch \in h.local \/ baseBranch \in h.remote
        start == IF localExists THEN branch
                 ELSE IF remoteExists THEN Origin(branch)
                 ELSE IF baseBranch \in h.local THEN baseBranch
                 ELSE Origin(baseBranch)
    IN  IF mode = "base" /\ ~baseFound
        THEN [ok |-> FALSE, w |-> w, mode |-> mode, start |-> NoBranch,
              err |-> "base_not_found",
              tried |-> {baseBranch, Origin(baseBranch)}]
        ELSE IF gitOk /\ CanAddWorktree(w, r, d, branch)
        THEN [ok |-> TRUE, w |-> WorktreeAdd(w, r, d, branch), mode |-> mode,
              start |-> start, err |-> "none", tried |-> {}]
        ELSE [ok |-> FALSE, w |-> w, mode |-> mode, start |-> start,
              err |-> "git", tried |-> {}]

(***************************************************************************)
(* CreateMattermostDualWorktree(mc, branch, baseBranch), with mc.ServerPort*)
(* and mc.MetricsPort passed as serverPort and metricsPort.  env is what   *)
(* the collaborators do during the call:                                   *)
(*   env.fault   the step whose collaborator fails ("none": no failure);   *)
(*   env.rmFail  the repositories whose forced unit removal fails during   *)
(*               cleanup (the code ignores these errors);                  *)
(*   env.src     server/config/config.json of the primary repository;      *)
(*   env.opt     for each file mapping that is not required, the files its *)
(*               glob matches, each with the outcome of its copy.          *)
(***************************************************************************)
Steps == <<"mkdir", "base", "primary", "companion", "symlink", "aux", "ports">>

Faults == {"none"} \cup {Steps[i] : i \in DOMAIN Steps}

NoModes == [r \in Repos |-> "none"]

NoStarts == [r \in Repos |-> NoBranch]

\* A cleanup that removes the units and prunes, and leaves the directory.
cleanup_LeavesDirectory(w, d, serverWorktreeCreated, enterpriseWorktreeCreated, rmFail) ==
    LET w1 == IF serverWorktreeCreated
              THEN removeWorktreeFromRepo(w, "mattermost", d, "mattermost" \notin rmFail)
              ELSE w
        w2 == IF enterpriseWorktreeCreated
              THEN removeWorktreeFromRepo(w1, "enterprise", d, "enterprise" \notin rmFail)
              ELSE w1
    IN  WorktreePrune(WorktreePrune(w2, "mattermost"), "enterprise")

\* The cleanup closure: remove the units created so far, prune, delete.
cleanup(w, d, serverWorktreeCreated, enterpriseWorktreeCreated, rmFail) ==
    LET w1 == IF serverWorktreeCreated
              THEN removeWorktreeFromRepo(w, "mattermost", d, "mattermost" \notin rmFail)
              ELSE w
        w2 == IF enterpriseWorktreeCreated
              THEN removeWorktreeFromRepo(w1, "enterprise", d, "enterprise" \notin rmFail)
              ELSE w1
        w3 == WorktreePrune(WorktreePrune(w2, "mattermost"), "enterprise")
    IN  RemoveAll(w3, d)

\* The file mappings in the order copyMattermostFiles walks them:
\* mattermostServerFiles, then enterpriseFiles.
FileMappings ==
    << [repo |-> "mattermost", SourceGlob |-> "server/go.work*",
        DestinationPath |-> "server/", Required |-> FALSE],
       [repo |-> "mattermost", SourceGlob |-> "webapp/.dir-locals.el",
        DestinationPath |-> "webapp/.dir-locals.el", Required |-> FALSE],
       [repo |-> "mattermost", SourceGlob |-> "server/config/config.json",
        DestinationPath |-> "server/config/config.json", Required |-> TRUE],
       [repo |-> "mattermost", SourceGlob |-> "docker-compose.override.yaml",
        DestinationPath |-> "docker-compose.override.yaml", Required |-> FALSE],
       [repo |-> "mattermost", SourceGlob |-> "server/config.override.mk",
        DestinationPath |-> "server/config.override.mk", Required |-> FALSE],
       [repo |-> "enterprise", SourceGlob |-> "go.work*",
        DestinationPath |-> "", Required |-> FALSE] >>

RequiredMappings == {k \in DOMAIN FileMappings : FileMappings[k].Required}

OptionalMappings == DOMAIN FileMappings \ RequiredMappings

\* The mappings whose glob has a wildcard and can match several files.
WildcardMappings ==
    {k \in DOMAIN FileMappings :
        FileMappings[k].SourceGlob \in {"server/go.work*", "go.work*"}}

\* The result of copyMattermostFiles: its error, the matches copied and
\* the matches whose failed copy was only warned about, each match being
\* <<mapping index, index among the mapping's matches>>.
NoCopy == [err |-> "none", copied |-> {}, warned |-> {}]

\* A copy that takes no mapping for required when its glob matches nothing.
RECURSIVE copyMattermostFiles_SkipsMissingRequired(_, _, _, _)
copyMattermostFiles_SkipsMissingRequired(files, k, j, acc) ==
    IF k > Len(FileMappings) THEN acc
    ELSE IF j > Len(files[k])
    THEN copyMattermostFiles_SkipsMissingRequired(files, k + 1, 1, acc)
    ELSE IF files[k][j] = "fail"
    THEN IF FileMappings[k].Required
         THEN [acc EXCEPT !.err = "io"]
         ELSE copyMattermostFiles_SkipsMissingRequired(
                  files, k, j + 1, [acc EXCEPT !.warned = @ \cup {<<k, j>>}])
    ELSE copyMattermostFiles_SkipsMissingRequired(
             files, k, j + 1, [acc EXCEPT !.copied = @ \cup {<<k, j>>}])

\* A copy that returns the error of any failed copy, required or not.
RECURSIVE copyMattermostFiles_AbortsOnAnyFailure(_, _, _, _)
copyMattermostFiles_AbortsOnAnyFailure(files, k, j, acc) ==
    IF k > Len(FileMappings) THEN acc
    ELSE IF Len(files[k]) = 0 /\ FileMappings[k].Required
    THEN [acc EXCEPT !.err = "required_file"]
    ELSE IF j > Len(files[k])
    THEN copyMattermostFiles_AbortsOnAnyFailure(files, k + 1, 1, acc)
    ELSE IF files[k][j] = "fail"
    THEN [acc EXCEPT !.err = "io"]
    ELSE copyMattermostFiles_AbortsOnAnyFailure(
             files, k, j + 1, [acc EXCEPT !.copied = @ \cup {<<k, j>>}])

\* copyMattermostFiles(mc, targetDir, sanitizedBranch) from match j of
\* mapping k on: files[k] is the sequence of outcomes ("ok" or "fail") of
\* copyFile on the matches of mapping k, in the order filepath.Glob returns
\* them (empty: no match).  The globs are fixed and well formed, so
\* filepath.Glob reports no pattern error.
RECURSIVE copyMattermostFiles(_, _, _, _)
copyMattermostFiles(files, k, j, acc) ==
    IF k > Len(FileMappings) THEN acc
    ELSE IF Len(files[k]) = 0 /\ FileMappings[k].Required
    THEN [acc EXCEPT !.err = "required_file"]
    ELSE IF j > Len(files[k])
    THEN copyMattermostFiles(files, k + 1, 1, acc)
    ELSE IF files[k][j] = "fail"
    THEN IF FileMappings[k].Required
         THEN [acc EXCEPT !.err = "io"]
         ELSE copyMattermostFiles(files, k, j + 1,
                                  [acc EXCEPT !.warned = @ \cup {<<k, j>>}])
    ELSE copyMattermostFiles(files, k, j + 1,
                             [acc EXCEPT !.copied = @ \cup {<<k, j>>}])

\* The one required mapping is server/config/config.json of the primary
\* repository: it matches nothing when that file is missing.
RequiredFileMissing(src) == src.kind = "absent"

\* What the mappings find during a call: the required mapping matches
\* env.src if it exists, and its copy fails when the fault is at the
\* auxiliary file copy.
FilesOf(env) ==
    [k \in DOMAIN FileMappings |->
        IF k \in RequiredMappings
        THEN IF RequiredFileMissing(env.src) THEN <<>>
             ELSE IF env.fault = "aux" THEN <<"fail">> ELSE <<"ok">>
        ELSE env.opt[k]]

CreateMattermostDualWorktree(w0, branch, baseBranch0, serverPort, metricsPort, env) ==
    LET d == GetMattermostWorktreePath(branch)
        Out(w, res, at, err, cfg, modes, starts, files) ==
            [w |-> w, res |-> res, failedAt |-> at, err |-> err,
             cfgStatus |-> cfg, mode |-> modes, start |-> starts,
             files |-> files, tried |-> {}]
        Fail(w, at, err, modes, starts) ==
            Out(w, "error", at, err, "none", modes, starts, NoCopy)
    IN
    IF Stat(w0, d) THEN Fail(w0, "exists", "exists", NoModes, NoStarts)
    ELSE
    LET w1 == WorktreePrune(WorktreePrune(w0, "mattermost"), "enterprise") IN
    IF env.fault = "mkdir" THEN Fail(w1, "mkdir", "io", NoModes, NoStarts)
    ELSE
    LET w2 == [w1 EXCEPT !.fs[d] = EmptyDir] IN
    IF env.fault = "base"
    THEN Fail(cleanup(w2, d, FALSE, FALSE, env.rmFail), "base", "io",
              NoModes, NoStarts)
    ELSE
    LET baseBranch == IF baseBranch0 = NoBranch
                      THEN GetDefaultBranch(w2.heads["mattermost"])
                      ELSE baseBranch0
        p == createWorktreeForRepo(w2, "mattermost", branch, baseBranch, d,
                                   env.fault # "primary")
        m1 == [NoModes EXCEPT !["mattermost"] = p.mode]
        s1 == [NoStarts EXCEPT !["mattermost"] = p.start]
    IN
    IF ~p.ok
    THEN [Fail(cleanup(p.w, d, FALSE, FALSE, env.rmFail), "primary", p.err,
               m1, s1) EXCEPT !.tried = p.tried]
    ELSE
    LET c == createWorktreeForRepo(p.w, "enterprise", branch, baseBranch, d,
                                   env.fault # "companion")
        m2 == [m1 EXCEPT !["enterprise"] = c.mode]
        s2 == [s1 EXCEPT !["enterprise"] = c.start]
    IN
    IF ~c.ok
    THEN [Fail(cleanup(c.w, d, TRUE, FALSE, env.rmFail), "companion", c.err,
               m2, s2) EXCEPT !.tried = c.tried]
    ELSE
    IF env.fault = "symlink"
    THEN Fail(cleanup(c.w, d, TRUE, TRUE, env.rmFail), "symlink", "io", m2, s2)
    ELSE
    LET copy == copyMattermostFiles(FilesOf(env), 1, 1, NoCopy) IN
    IF copy.err # "none"
    THEN Out(cleanup(c.w, d, TRUE, TRUE, env.rmFail), "error", "aux", copy.err,
             "none", m2, s2, copy)
    ELSE
    LET w3 == [c.w EXCEPT !.fs[d].config = env.src] IN
    IF w3.fs[d].config.kind = "absent"
    THEN Out(w3, "ok", "none", "none", "skipped", m2, s2, copy)
    ELSE
    LET u == updateConfigPorts(w3.fs[d].config, serverPort, metricsPort,
                               IF env.fault = "ports" THEN "write_err" ELSE "ok")
        w4 == [w3 EXCEPT !.fs[d].config = u.file]
    IN  IF u.status = "panic"
        THEN Out(w4, "panic", "ports", "nil_map", "panic", m2, s2, copy)
        ELSE Out(w4, "ok", "none", "none", u.status, m2, s2, copy)

(***************************************************************************)
(* Port allocation.  A WorktreeInfo is represented by what the filesystem  *)
(* shows at its Path (a directory in the shape of fs[d]); bound is the set *)
(* of ports some process has bound on localhost.                           *)
(***************************************************************************)
\* IsPortAvailable(port): a transient net.Listen on the port succeeds.
IsPortAvailable(port, bound) == port \notin bound

PortsOfPair(pair) == {pair[i] : i \in {j \in 1..2 : pair[j] > 0}}

\* A reserved set that takes the ports of every worktree with a config,
\* dual or not.
GetReservedPorts_OfAnyWorktree(existingWorktrees) ==
    ExcludedPorts \cup
    UNION {PortsOfPair(ExtractPortPairFromConfig(wt.config)) :
           wt \in existingWorktrees}

\* GetReservedPorts(existingWorktrees)
GetReservedPorts(existingWorktrees) ==
    ExcludedPorts \cup
    UNION {PortsOfPair(ExtractPortPairFromConfig(wt.config)) :
           wt \in {x \in existingWorktrees : IsMattermostDualWorktree(x)}}

\* A pair check that looks up only the server port in the reserved set.
isPortPairAvailable_ServerPortOnly(serverPort, reserved, bound) ==
    /\ serverPort \notin reserved
    /\ IsPortAvailable(serverPort, bound)
    /\ IsPortAvailable(serverPort + MetricsPortOffset, bound)

\* isPortPairAvailable(serverPort, reserved)
isPortPairAvailable(serverPort, reserved, bound) ==
    LET metricsPort == serverPort + MetricsPortOffset IN
    /\ ~(serverPort \in reserved \/ metricsPort \in reserved)
    /\ IsPortAvailable(serverPort, bound)
    /\ IsPortAvailable(metricsPort, bound)

\* A range of server ports that is not trimmed by the metrics offset.
maxServerPort_Untrimmed == PortRangeEnd

maxServerPort == PortRangeEnd - MetricsPortOffset

portRangeSize == maxServerPort - PortRangeStart + 1

NoHit == <<-1, -1>>

\* Phase 1 of GetAvailablePortsWithRand from the given attempt on: the set
\* of results over every value rng.Intn(portRangeSize) can return, NoHit
\* standing for "all remaining attempts drew an unavailable candidate".
\* candidates are the ports PortRangeStart + rng.Intn(portRangeSize) ranges
\* over, hits those of them isPortPairAvailable accepts.
RECURSIVE RandomPhase(_, _, _)
RandomPhase(attempt, candidates, hits) ==
    IF attempt >= PortRandomRetries THEN {NoHit}
    ELSE {<<c, c + MetricsPortOffset>> : c \in hits}
         \cup (IF hits # candidates
               THEN RandomPhase(attempt + 1, candidates, hits) ELSE {})

\* A scan that runs from the start offset to the end of the range and does
\* not wrap around.
RECURSIVE SequentialScan_NoWrap(_, _, _, _)
SequentialScan_NoWrap(i, startOffset, reserved, bound) ==
    IF startOffset + i >= portRangeSize THEN <<0, 0>>
    ELSE LET candidatePort == PortRangeStart + startOffset + i
         IN  IF isPortPairAvailable(candidatePort, reserved, bound)
             THEN <<candidatePort, candidatePort + MetricsPortOffset>>
             ELSE SequentialScan_NoWrap(i + 1, startOffset, reserved, bound)

\* Phase 2 from iteration i on, for one start offset.
RECURSIVE SequentialScan(_, _, _, _)
SequentialScan(i, startOffset, reserved, bound) ==
    IF i >= portRangeSize THEN <<0, 0>>
    ELSE LET candidatePort == PortRangeStart + ((startOffset + i) % portRangeSize)
         IN  IF isPortPairAvailable(candidatePort, reserved, bound)
             THEN <<candidatePort, candidatePort + MetricsPortOffset>>
             ELSE SequentialScan(i + 1, startOffset, reserved, bound)

\* GetAvailablePortsWithRand(existingWorktrees, rng): every pair it can
\* return, over all behaviours of rng.
GetAvailablePortsWithRand(existingWorktrees, bound) ==
    LET reserved == GetReservedPorts(existingWorktrees)
        candidates == {PortRangeStart + n : n \in 0..(portRangeSize - 1)}
        hits == {c \in candidates : isPortPairAvailable(c, reserved, bound)}
        phase1 == RandomPhase(0, candidates, hits)
    IN  (phase1 \ {NoHit})
        \cup (IF NoHit \in phase1
              THEN {SequentialScan(0, startOffset, reserved, bound) :
                    startOffset \in 0..(portRangeSize - 1)}
              ELSE {})

\* A source that is seeded from the global generator whatever rng is passed.
SourceOf_AlwaysFresh(rng, entropy) == entropy

\* The generator GetAvailablePortsWithRand draws from, represented by its
\* seed: the rng passed, or if it is nil a new one seeded with
\* rand.Int63() of the global generator (entropy).
SourceOf(rng, entropy) == IF rng.nil THEN entropy ELSE rng.seed

\* GetAvailablePortsWithRand from the given attempt on, drawing from the
\* generator seeded with seed: its k-th rng.Intn(portRangeSize) is a
\* function of seed and k.  After PortRandomRetries attempts the next draw
\* is the start offset of the sequential scan.
RECURSIVE SeededPhase(_, _, _, _)
SeededPhase(attempt, seed, reserved, bound) ==
    LET Intn == (seed + attempt * (1 + (seed % 3))) % portRangeSize
        candidatePort == PortRangeStart + Intn
    IN  IF attempt >= PortRandomRetries
        THEN SequentialScan(0, Intn, reserved, bound)
        ELSE IF isPortPairAvailable(candidatePort, reserved, bound)
        THEN <<candidatePort, candidatePort + MetricsPortOffset>>
        ELSE SeededPhase(attempt + 1, seed, reserved, bound)

\* The candidates a scan without wrap-around examines.
RECURSIVE ScanProbes_NoWrap(_, _, _, _)
ScanProbes_NoWrap(i, startOffset, reserved, bound) ==
    IF startOffset + i >= portRangeSize THEN <<>>
    ELSE LET candidatePort == PortRangeStart + startOffset + i
         IN  IF isPortPairAvailable(candidatePort, reserved, bound)
             THEN <<candidatePort>>
             ELSE <<candidatePort>>
                  \o ScanProbes_NoWrap(i + 1, startOffset, reserved, bound)

\* The candidates phase 2 hands to isPortPairAvailable from iteration i on,
\* in order, up to the first one accepted.
RECURSIVE ScanProbes(_, _, _, _)
ScanProbes(i, startOffset, reserved, bound) ==
    IF i >= portRangeSize THEN <<>>
    ELSE LET candidatePort == PortRangeStart + ((startOffset + i) % portRangeSize)
         IN  IF isPortPairAvailable(candidatePort, reserved, bound)
             THEN <<candidatePort>>
             ELSE <<candidatePort>> \o ScanProbes(i + 1, startOffset, reserved, bound)

\* The candidates the run of SeededPhase hands to isPortPairAvailable: those
\* of phase 1 (random) and those of phase 2 (scan).
RECURSIVE SeededProbes(_, _, _, _)
SeededProbes(attempt, seed, reserved, bound) ==
    LET Intn == (seed + attempt * (1 + (seed % 3))) % portRangeSize
        candidatePort == PortRangeStart + Intn
        rest == SeededProbes(attempt + 1, seed, reserved, bound)
    IN  IF attempt >= PortRandomRetries
        THEN [random |-> <<>>, scan |-> ScanProbes(0, Intn, reserved, bound)]
        ELSE IF isPortPairAvailable(candidatePort, reserved, bound)
        THEN [random |-> <<candidatePort>>, scan |-> <<>>]
        ELSE [rest EXCEPT !.random = <<candidatePort>> \o @]

\* A port block that takes only the metrics port from the allocated pair.
DeterminePorts_ForgetsServerPort(given, called, auto) ==
    IF given[1] = 0 \/ given[2] = 0
    THEN LET m1 == IF called /\ given[2] = 0 THEN auto[2] ELSE given[2]
         IN  <<IF given[1] = 0 THEN DefaultServerPort ELSE given[1],
               IF m1 = 0 THEN DefaultMetricsPort ELSE m1>>
    ELSE given

\* The port block of runMattermostCheckout (checkout.go 208-235): given is
\* the caller's <<serverPort, metricsPort>>, auto the pair GetAvailablePorts
\* returned, called whether ListWorktrees returned a non-nil list.
DeterminePorts(given, called, auto) ==
    IF given[1] = 0 \/ given[2] = 0
    THEN LET s1 == IF called /\ given[1] = 0 THEN auto[1] ELSE given[1]
             m1 == IF called /\ given[2] = 0 THEN auto[2] ELSE given[2]
         IN  <<IF s1 = 0 THEN DefaultServerPort ELSE s1,
               IF m1 = 0 THEN DefaultMetricsPort ELSE m1>>
    ELSE given

\* A unit directory holds a checkout of its repository: none of its entries
\* is a mattermost-* or enterprise-* worktree.
UnitDirectory(w, r, d) ==
    [exists |-> w.fs[d].exists /\ w.fs[d].unit[r] # "none",
     unit |-> NoUnits, config |-> NoFile]

\* ListWorktrees(config): git worktree list in the current repository (the
\* primary one, where runMattermostCheckout runs), kept when under the
\* managed base path; each entry is seen through its Path, a unit path.
ListWorktrees(w) ==
    {UnitDirectory(w, "mattermost", d) :
     d \in {x \in Dirs : w.reg["mattermost"][x] # NoBranch}}

(***************************************************************************)
(* runMattermostCheckout(repo, branch, baseBranch, serverPort, metricsPort)*)
(* on world w: the short-circuit on an existing dual worktree, the port    *)
(* block, then CreateMattermostDualWorktree.  auto is the pair             *)
(* GetAvailablePorts returns if it is called.                              *)
(***************************************************************************)
World == [fs |-> fs, reg |-> reg, heads |-> heads]

NoCall ==
    [op |-> "none", branch |-> NoBranch, base |-> NoBranch, res |-> "none",
     preExists |-> FALSE, preDual |-> FALSE, failedAt |-> "none",
     err |-> "none", cfgStatus |-> "none", ports |-> <<0, 0>>,
     mode |-> NoModes, start |-> NoStarts, attempted |-> {}, reported |-> {},
     tried |-> {}]

\* The record of a create call before its outcome is known.
CreateCall(w, branch, baseBranch) ==
    LET d == GetMattermostWorktreePath(branch)
    IN  [NoCall EXCEPT !.op = "create", !.branch = branch, !.base = baseBranch,
                       !.preExists = w.fs[d].exists,
                       !.preDual = IsMattermostDualWorktree(w.fs[d])]

\* checkout.go 208-270: determine the ports, then create.
checkoutCreate(w, branch, baseBranch, given, auto, env) ==
    LET called == ListWorktrees(w) # {}
        ports == DeterminePorts(given, called, auto)
        out == CreateMattermostDualWorktree(w, branch, baseBranch,
                                            ports[1], ports[2], env)
    IN  [w |-> out.w,
         last |-> [CreateCall(w, branch, baseBranch) EXCEPT
                       !.res = out.res, !.failedAt = out.failedAt,
                       !.err = out.err, !.cfgStatus = out.cfgStatus,
                       !.ports = IF out.res = "error" THEN <<0, 0>> ELSE ports,
                       !.mode = out.mode, !.start = out.start,
                       !.tried = out.tried],
         files |-> out.files]

\* A checkout without the short-circuit on an existing dual worktree.
runMattermostCheckout_AlwaysCreates(w, branch, baseBranch, given, auto, env) ==
    checkoutCreate(w, branch, baseBranch, given, auto, env)

runMattermostCheckout(w, branch, baseBranch, given, auto, env) ==
    IF IsMattermostDualWorktree(w.fs[GetMattermostWorktreePath(branch)])
    THEN [w |-> w,
          last |-> [CreateCall(w, branch, baseBranch) EXCEPT !.res = "ok"],
          files |-> NoCopy]
    ELSE checkoutCreate(w, branch, baseBranch, given, auto, env)

\* The record of a remove call before its outcome is known.
RemoveCall(w, branch) ==
    LET d == GetMattermostWorktreePath(branch)
    IN  [NoCall EXCEPT !.op = "remove", !.branch = branch,
                       !.preExists = w.fs[d].exists,
                       !.preDual = IsMattermostDualWorktree(w.fs[d])]

\* A removal that goes on to the companion unit when the primary unit's
\* removal failed, and reports every failure.
RemoveMattermostDualWorktree_ContinuesAfterFailure(w, branch, gitFail) ==
    LET d == GetMattermostWorktreePath(branch)
        call == RemoveCall(w, branch)
    IN
    IF ~IsMattermostDualWorktree(w.fs[d])
    THEN [w |-> w, last |-> [call EXCEPT !.res = "error", !.failedAt = "not_dual"]]
    ELSE
    LET w1 == removeWorktreeFromRepo(w, "mattermost", d, "mattermost" \notin gitFail)
        w2 == removeWorktreeFromRepo(w1, "enterprise", d, "enterprise" \notin gitFail)
        failed == {r \in Repos : w2.fs[d].unit[r] # "none"}
    IN  IF failed = {}
        THEN [w |-> RemoveAll(w2, d),
              last |-> [call EXCEPT !.res = "ok", !.attempted = Repos]]
        ELSE [w |-> w2,
              last |-> [call EXCEPT !.res = "error", !.attempted = Repos,
                                    !.reported = failed,
                                    !.failedAt = IF "mattermost" \in failed
                                                 THEN "primary" ELSE "companion"]]

\* RemoveMattermostDualWorktree(mc, branch, force).  gitFail is the set of
\* repositories whose git worktree remove fails (uncommitted changes
\* without force, a locked unit, ...).  attempted are the repositories
\* removeWorktreeFromRepo was called for, reported those whose failure the
\* returned error carries.
RemoveMattermostDualWorktree(w, branch, gitFail) ==
    LET d == GetMattermostWorktreePath(branch)
        call == RemoveCall(w, branch)
        Fail(w1, at, attempted, reported) ==
            [w |-> w1, last |-> [call EXCEPT !.res = "error", !.failedAt = at,
                                             !.attempted = attempted,
                                             !.reported = reported]]
    IN
    IF ~w.fs[d].exists THEN Fail(w, "not_found", {}, {})
    ELSE IF ~IsMattermostDualWorktree(w.fs[d]) THEN Fail(w, "not_dual", {}, {})
    ELSE IF ~CanRemoveWorktree(w, "mattermost", d, "mattermost" \notin gitFail)
    THEN Fail(w, "primary", {"mattermost"}, {"mattermost"})
    ELSE
    LET w1 == removeWorktreeFromRepo(w, "mattermost", d, TRUE) IN
    IF ~CanRemoveWorktree(w1, "enterprise", d, "enterprise" \notin gitFail)
    THEN Fail(w1, "companion", Repos, {"enterprise"})
    ELSE [w |-> RemoveAll(removeWorktreeFromRepo(w1, "enterprise", d, TRUE), d),
          last |-> [call EXCEPT !.res = "ok", !.attempted = Repos]]

(***************************************************************************)
(* The lifecycle specification.                                            *)
(***************************************************************************)
\* server/config/config.json of the primary repository, as the callers
\* find it: the stock file, no file, a file that is not JSON, the literal
\* null.
MainConfig == ConfigRecording(MainRepoPort, MainRepoPort + 2)

SrcConfigs == {MainConfig, NoFile, RawFile("invalid"), RawFile("null")}

\* What the collaborators do during one call: no fault with any source
\* config (the other mapped files being there and copied), or a fault at
\* one step; once both units exist, with any outcome
\* of the forced removals of cleanup, and with the primary's forced removal
\* failing or not when the companion unit fails.
\* Every mapping that is not required matches one file, which is copied.
AllCopied == [k \in OptionalMappings |-> <<"ok">>]

Envs ==
    [fault : {"none"}, rmFail : {{}}, src : SrcConfigs, opt : {AllCopied}]
    \cup [fault : Faults \ {"none"}, rmFail : {{}}, src : {MainConfig},
          opt : {AllCopied}]
    \cup [fault : {"companion"}, rmFail : {{"mattermost"}}, src : {MainConfig},
          opt : {AllCopied}]
    \cup [fault : {"aux"}, rmFail : SUBSET Repos, src : {MainConfig},
          opt : {AllCopied}]

\* Ports bound by other processes while a checkout runs: none, or all of
\* the range (every other set yields a subset of the same results).
LocalhostCases == {{}, PortRangeStart..PortRangeEnd}

\* Base branches a caller names: none (the default branch) or Release.
BaseBranches == {NoBranch, Release}

HeadsOf(localExtra, remote) ==
    [local |-> {Main} \cup localExtra, remote |-> remote,
     originHead |-> NoBranch, current |-> Main]

\* A repository either has Release (locally, and <<"c">> on origin only) or
\* has neither.
InitHeads == {HeadsOf({Release}, {<<"c">>}), HeadsOf({}, {})}

\* Number of checkout and remove commands in one run.
MaxCalls == 3

PaIdle == [phase |-> "idle"]

CfIdle == [phase |-> "idle"]

\* The case variable of a specification that is not the one running.
Idle == [phase |-> "idle"]

Init ==
    /\ fs = [d \in Dirs |-> Absent]
    /\ reg = [r \in Repos |-> [d \in Dirs |-> NoBranch]]
    /\ heads \in [Repos -> InitHeads]
    /\ last = NoCall
    /\ calls = 0
    /\ bp = Idle
    /\ pa = PaIdle
    /\ cf = CfIdle
    /\ fm = Idle
    /\ cl = Idle
    /\ cp = Idle
    /\ cn = Idle
    /\ pr = Idle

\* The pairs GetAvailablePorts can hand to a checkout, over the ports bound
\* on localhost.  Only a config update that takes place reads the ports, so
\* a call in which none does is taken with one of the pairs.
AutoPairs(all, env) ==
    IF env.fault = "none" /\ env.src.kind = "object" THEN all
    ELSE {CHOOSE pair \in all : TRUE}

\* wt co <branch> [-b base] in the primary repository; every current caller
\* passes serverPort = metricsPort = 0.
Checkout ==
    /\ calls < MaxCalls
    /\ LET all == UNION {GetAvailablePortsWithRand(ListWorktrees(World), bound) :
                         bound \in LocalhostCases}
       IN
       \E branch \in Branches, baseBranch \in BaseBranches, env \in Envs :
        \E auto \in AutoPairs(all, env) :
            \E out \in {runMattermostCheckout(World, branch, baseBranch,
                                               <<0, 0>>, auto, env)} :
                /\ fs' = out.w.fs
                /\ reg' = out.w.reg
                /\ heads' = out.w.heads
                /\ last' = out.last
                /\ calls' = calls + 1
                /\ UNCHANGED <<pa, cf, fm, cl, cp, cn, pr, bp>>

\* wt rm <branch> on a dual worktree.
Remove ==
    /\ calls < MaxCalls
    /\ \E branch \in Branches, gitFail \in SUBSET Repos :
        \E out \in {RemoveMattermostDualWorktree(World, branch, gitFail)} :
            /\ fs' = out.w.fs
            /\ reg' = out.w.reg
            /\ heads' = out.w.heads
            /\ last' = out.last
            /\ calls' = calls + 1
            /\ UNCHANGED <<pa, cf, fm, cl, cp, cn, pr, bp>>

Next == Checkout \/ Remove

Spec == Init /\ [][Next]_vars

(***************************************************************************)
(* The allocator specification: GetAvailablePortsWithRand on arbitrary     *)
(* existing worktrees and bound ports, then the port block of              *)
(* runMattermostCheckout and the recording of its result in a config.      *)
(* pa is the case at hand:                                                 *)
(*   existing  the WorktreeInfo views passed as existingWorktrees;         *)
(*   bound     the ports bound on localhost;                               *)
(*   given     the caller's <<serverPort, metricsPort>> (0: not given);    *)
(*   auto      the pair the allocator returned;                            *)
(*   ports     the pair the port block determined;                         *)
(*   recorded  the pair read back from the config the ports were set in.   *)
(***************************************************************************)
DualView(config) ==
    [exists |-> TRUE, unit |-> [r \in Repos |-> "worktree"], config |-> config]

PrimaryOnlyView(config) ==
    [exists |-> TRUE,
     unit |-> [r \in Repos |-> IF r = "mattermost" THEN "worktree" ELSE "none"],
     config |-> config]

\* Worktrees the allocator may be shown: dual worktrees recording pairs of
\* the range, one recording a server port and ":0" for metrics, dual
\* worktrees whose config does not parse or is missing, and a directory
\* with one unit only.
Views ==
    {DualView(ConfigRecording(s, s + MetricsPortOffset)) :
         s \in {PortRangeStart, PortRangeStart + 1, PortRangeStart + 2}}
    \cup {DualView(ConfigRecording(PortRangeStart + 3, 0)),
          DualView(RawFile("invalid")), DualView(NoFile),
          PrimaryOnlyView(ConfigRecording(PortRangeStart + 1,
                                          PortRangeStart + 1 + MetricsPortOffset))}

\* The caller's serverPort and metricsPort: 0 (not given) or an override.
GivenPorts == {0, 9000} \X {0, 9000}

PaInputs ==
    [phase : {"input"}, existing : {e \in SUBSET Views : Cardinality(e) <= 3},
     bound : SUBSET (PortRangeStart..PortRangeEnd), given : GivenPorts,
     auto : {NoHit}, ports : {NoHit}, recorded : {NoHit},
     rng : {[nil |-> TRUE, seed |-> 0]}, entropy : {<<0, 0>>}, again : {NoHit},
     probes : {[random |-> <<>>, scan |-> <<>>]}]

InitPorts ==
    /\ fs = [d \in Dirs |-> Absent]
    /\ reg = [r \in Repos |-> [d \in Dirs |-> NoBranch]]
    /\ heads = [r \in Repos |-> HeadsOf({}, {})]
    /\ last = NoCall
    /\ calls = 0
    /\ bp = Idle
    /\ cf = CfIdle
    /\ fm = Idle
    /\ cl = Idle
    /\ cp = Idle
    /\ cn = Idle
    /\ pr = Idle
    /\ pa \in PaInputs

\* GetAvailablePorts(existingWorktrees)
Allocate ==
    /\ pa.phase = "input"
    /\ \E auto \in GetAvailablePortsWithRand(pa.existing, pa.bound) :
           pa' = [pa EXCEPT !.phase = "allocated", !.auto = auto]
    /\ UNCHANGED <<fs, reg, heads, last, calls, cf, fm, cl, cp, cn, pr, bp>>

\* The port block of runMattermostCheckout, then updateConfigPorts on the
\* copied config and ExtractPortPairFromConfig on the result.
Record ==
    /\ pa.phase = "allocated"
    /\ LET ports == DeterminePorts(pa.given, pa.existing # {}, pa.auto)
           u == updateConfigPorts(MainConfig, ports[1], ports[2], "ok")
       IN  pa' = [pa EXCEPT !.phase = "recorded", !.ports = ports,
                            !.recorded = ExtractPortPairFromConfig(u.file)]
    /\ UNCHANGED <<fs, reg, heads, last, calls, cf, fm, cl, cp, cn, pr, bp>>

\* Two runs of GetAvailablePortsWithRand(existingWorktrees, rng) on the same
\* worktrees and bound ports, each with an rng seeded alike (or nil in
\* both), while the global generator gives entropy[1] to the first run and
\* entropy[2] to the second.  probes are the candidates the first run hands
\* to isPortPairAvailable.
Rerun ==
    /\ pa.phase = "input" /\ pa.given = <<0, 0>>
    /\ \E rng \in {[nil |-> TRUE, seed |-> 0]} \cup [nil : {FALSE}, seed : 0..2],
          entropy \in {<<0, 1>>, <<2, 1>>, <<1, 1>>} :
           LET reserved == GetReservedPorts(pa.existing)
               Run(k) == SeededPhase(0, SourceOf(rng, entropy[k]), reserved, pa.bound)
           IN  pa' = [pa EXCEPT !.phase = "rerun", !.rng = rng,
                                !.entropy = entropy, !.auto = Run(1),
                                !.again = Run(2),
                                !.probes = SeededProbes(
                                               0, SourceOf(rng, entropy[1]),
                                               reserved, pa.bound)]
    /\ UNCHANGED <<fs, reg, heads, last, calls, cf, fm, cl, cp, cn, pr, bp>>

NextPorts == Allocate \/ Record \/ Rerun

SpecPorts == InitPorts /\ [][NextPorts]_vars

(***************************************************************************)
(* The config specification: updateConfigPorts on arbitrary config files,  *)
(* then ExtractPortPairFromConfig on the result.  cf is the case at hand:  *)
(*   before      the file before the update;                               *)
(*   serverPort, metricsPort  the ports to set;                            *)
(*   status      "ok", "error" or "panic";                                 *)
(*   after       the file after the update;                                *)
(*   readBack    the pair ExtractPortPairFromConfig reads from after.      *)
(***************************************************************************)
\* The option "key not present" when a document is put together.
Missing == [t |-> "missing"]

\* The map holding the chosen options other than Missing.
MapOf(options) ==
    [k \in {x \in DOMAIN options : options[x] # Missing} |-> options[k]]

ServiceObjects ==
    {JObj(MapOf([k \in {"ListenAddress", "SiteURL", "OtherSetting"} |->
                    CASE k = "ListenAddress" -> la
                      [] k = "SiteURL" -> su
                      [] OTHER -> os])) :
         la \in {Missing, ListenAddressOf(MainRepoPort), JNum(0, 80)},
         su \in {Missing, SiteURLOf(MainRepoPort)},
         os \in {Missing, JStr("preserved", -1), JNum(1, 1)}}

MetricsObjects ==
    {JObj(MapOf([k \in {"ListenAddress", "Enable"} |->
                    IF k = "ListenAddress" THEN la ELSE en])) :
         la \in {Missing, ListenAddressOf(MainRepoPort + 2)},
         en \in {Missing, JBool(TRUE)}}

\* A top-level section the port update has no business with.
OtherSections ==
    {Missing, JObj([k \in {"Key"} |-> JStr("value", -1)]),
     JNum(0, 5), JNum(1, 1), JNum(1, 2)}

\* Each known subtree is absent, null, of a wrong type or an object.
ConfigDocuments ==
    {ObjectFile(MapOf([k \in {"ServiceSettings", "MetricsSettings", "OtherSection"} |->
                        CASE k = "ServiceSettings" -> ss
                          [] k = "MetricsSettings" -> ms
                          [] OTHER -> ot]), "compact") :
         ss \in {Missing, JNull, JStr("on", -1), JArr} \cup ServiceObjects,
         ms \in {Missing, JNull, JBool(FALSE), JNum(0, 1)} \cup MetricsObjects,
         ot \in OtherSections}

ConfigFiles ==
    ConfigDocuments
    \cup {NoFile, RawFile("invalid"), RawFile("array"), RawFile("scalar"),
          RawFile("null")}

ServerPorts == {PortRangeStart, 8891}

MetricsPorts == {PortRangeStart + MetricsPortOffset, 8893}

IoCases == {"ok", "read_err", "write_err"}

CfInputs ==
    [phase : {"input"}, before : ConfigFiles, serverPort : ServerPorts,
     metricsPort : MetricsPorts, io : {"none"}, status : {"none"},
     after : {NoFile}, readBack : {NoHit}]

InitConfig ==
    /\ fs = [d \in Dirs |-> Absent]
    /\ reg = [r \in Repos |-> [d \in Dirs |-> NoBranch]]
    /\ heads = [r \in Repos |-> HeadsOf({}, {})]
    /\ last = NoCall
    /\ calls = 0
    /\ bp = Idle
    /\ pa = PaIdle
    /\ fm = Idle
    /\ cl = Idle
    /\ cp = Idle
    /\ cn = Idle
    /\ pr = Idle
    /\ cf \in CfInputs

\* updateConfigPorts(configPath, serverPort, metricsPort)
SetPorts ==
    /\ cf.phase = "input"
    /\ \E io \in IoCases :
           LET u == updateConfigPorts(cf.before, cf.serverPort, cf.metricsPort, io)
           IN  cf' = [cf EXCEPT !.phase = "set", !.io = io,
                                !.status = u.status, !.after = u.file]
    /\ UNCHANGED <<fs, reg, heads, last, calls, pa, fm, cl, cp, cn, pr, bp>>

\* ExtractPortPairFromConfig(configPath)
ReadBack ==
    /\ cf.phase = "set"
    /\ cf' = [cf EXCEPT !.phase = "read",
                        !.readBack = ExtractPortPairFromConfig(cf.after)]
    /\ UNCHANGED <<fs, reg, heads, last, calls, pa, fm, cl, cp, cn, pr, bp>>

NextConfig == SetPorts \/ ReadBack

SpecConfig == InitConfig /\ [][NextConfig]_vars

(***************************************************************************)
(* The file-mapping specification: one checkout into an empty world, over  *)
(* every outcome of the file mappings.  fm is the case at hand:            *)
(*   required  what happens to the required mapping: its file is copied    *)
(*             ("ok"), its copy fails ("fail"), or it matches nothing      *)
(*             ("absent");                                                 *)
(*   opt       for each other mapping, the outcomes of the copies of its   *)
(*             matches;                                                    *)
(*   files     the result of copyMattermostFiles in the call.              *)
(***************************************************************************)
\* The number of files a wildcard glob matches at most.
MaxMatches == 2

\* The outcomes of the copies of up to n matches.
MatchOutcomes(n) == UNION {[1..m -> {"ok", "fail"}] : m \in 0..n}

\* A glob without wildcard matches one file at most.
OptCases ==
    {[k \in OptionalMappings |-> IF k \in WildcardMappings THEN g[k] ELSE h[k]] :
        g \in [WildcardMappings -> MatchOutcomes(MaxMatches)],
        h \in [OptionalMappings \ WildcardMappings -> MatchOutcomes(1)]}

FmInputs ==
    [phase : {"input"}, required : {"ok", "fail", "absent"}, opt : OptCases,
     files : {NoCopy}]

InitFiles ==
    /\ fs = [d \in Dirs |-> Absent]
    /\ reg = [r \in Repos |-> [d \in Dirs |-> NoBranch]]
    /\ heads = [r \in Repos |-> HeadsOf({}, {})]
    /\ last = NoCall
    /\ calls = 0
    /\ bp = Idle
    /\ pa = PaIdle
    /\ cf = CfIdle
    /\ cl = Idle
    /\ cp = Idle
    /\ cn = Idle
    /\ pr = Idle
    /\ fm \in FmInputs

\* The collaborators of the case at hand; the forced removals of a
\* rollback fail for the given repositories.
FmEnv(rmFail) ==
    [fault |-> IF fm.required = "fail" THEN "aux" ELSE "none",
     rmFail |-> rmFail,
     src |-> IF fm.required = "absent" THEN NoFile ELSE MainConfig,
     opt |-> fm.opt]

\* wt co <branch> with the file mappings finding what fm says.
CheckoutWithFiles ==
    /\ fm.phase = "input"
    /\ \E branch \in Branches, rmFail \in SUBSET Repos :
        \E out \in {runMattermostCheckout(World, branch, NoBranch, <<0, 0>>,
                                           <<0, 0>>, FmEnv(rmFail))} :
            /\ fs' = out.w.fs
            /\ reg' = out.w.reg
            /\ heads' = out.w.heads
            /\ last' = out.last
            /\ calls' = calls + 1
            /\ fm' = [fm EXCEPT !.phase = "done", !.files = out.files]
            /\ UNCHANGED <<pa, cf, cl, cp, cn, pr, bp>>

NextFiles == CheckoutWithFiles

SpecFiles == InitFiles /\ [][NextFiles]_vars

(***************************************************************************)
(* The classification specification: IsMattermostDualWorktree on arbitrary *)
(* directory listings.  cl is the case at hand: the entries of the         *)
(* directory and, once classified, the answer.                             *)
(***************************************************************************)
\* What can be found under a name: nothing, a regular file, a symlink to a
\* worktree unit, or a directory with any .git.
NameOptions ==
    {[type |-> "missing"], [type |-> "file", git |-> "plain"],
     [type |-> "symlink", git |-> "worktree"]}
    \cup [type : {"dir"}, git : GitMarkers]

\* The names a listing is made of: two of each prefix and another one.
ListedNames ==
    ({"mattermost", "enterprise"} \X {"x", "y"}) \cup {<<"other", "x">>}

Listings ==
    {{Entry(n[1], n[2], o[n].type, o[n].git) :
         n \in {x \in ListedNames : o[x].type # "missing"}} :
     o \in {f \in [ListedNames -> NameOptions] :
               f[<<"other", "x">>].type \in {"missing", "dir"}
               /\ f[<<"other", "x">>].type = "dir" =>
                      f[<<"other", "x">>].git = "worktree"}}

InitClassify ==
    /\ fs = [d \in Dirs |-> Absent]
    /\ reg = [r \in Repos |-> [d \in Dirs |-> NoBranch]]
    /\ heads = [r \in Repos |-> HeadsOf({}, {})]
    /\ last = NoCall
    /\ calls = 0
    /\ bp = Idle
    /\ pa = PaIdle
    /\ cf = CfIdle
    /\ fm = Idle
    /\ cp = Idle
    /\ cn = Idle
    /\ pr = Idle
    /\ cl \in [phase : {"input"}, entries : Listings, dual : {FALSE}]

\* IsMattermostDualWorktree(worktreePath) on an existing directory.
Classify ==
    /\ cl.phase = "input"
    /\ cl' = [cl EXCEPT !.phase = "classified",
                        !.dual = ScanEntries(cl.entries, FALSE, FALSE)]
    /\ UNCHANGED <<fs, reg, heads, last, calls, pa, cf, fm, cp, cn, pr, bp>>

NextClassify == Classify

SpecClassify == InitClassify /\ [][NextClassify]_vars

(***************************************************************************)
(* The copy specification: copyFilesExcept on arbitrary source trees.  A   *)
(* directory is a map from names to nodes; a node is a regular file with   *)
(* its content, a directory with its entries, or a symbolic link with its  *)
(* target, a path relative to the directory holding the link.  cp is the   *)
(* case at hand: the source entries, whether the copy returned an error,   *)
(* and the entries of the destination afterwards.                          *)
(***************************************************************************)
\* All names of the trees at hand, in the order os.ReadDir returns the
\* entries of a directory (sorted by filename).
SortedNames ==
    <<".env", "alias", "file.txt", "link.txt", "linkdir", "real.txt",
      "realdir", "server", "sub", "target.txt">>

\* What a path leads to from directory here, Missing if nothing.
RECURSIVE Resolve(_, _)
Resolve(here, path) ==
    IF path[1] \notin DOMAIN here THEN Missing
    ELSE IF Len(path) = 1 THEN here[path[1]]
    ELSE IF here[path[1]].t = "dir" THEN Resolve(here[path[1]].e, Tail(path))
    ELSE Missing

\* copyFile(src, dst) for the entry node of directory here.  os.Open
\* follows a symbolic link: it fails if the path leads nowhere; on a
\* directory it succeeds, os.Create makes an empty dst and io.Copy fails
\* reading a directory; on a regular file the content is copied into a
\* regular file dst.
copyFile(node, here) ==
    LET opened == IF node.t = "link" THEN Resolve(here, node.to) ELSE node
    IN  CASE opened.t = "file" -> [err |-> FALSE, made |-> TRUE, node |-> opened]
          [] opened.t = "dir"  ->
                 [err |-> TRUE, made |-> TRUE, node |-> [t |-> "file", c |-> ""]]
          [] OTHER             -> [err |-> TRUE, made |-> FALSE, node |-> Missing]

RECURSIVE copyDir(_)

\* The loop of copyDir and of copyFilesExcept from entry i of SortedNames
\* on: src are the entries of the source directory, skip the names passed
\* over, dst the entries made so far.  It stops at the first error.
RECURSIVE copyEntries(_, _, _, _)
copyEntries(src, skip, i, dst) ==
    IF i > Len(SortedNames) THEN [err |-> FALSE, e |-> dst]
    ELSE LET name == SortedNames[i] IN
         IF name \notin DOMAIN src \/ name \in skip
         THEN copyEntries(src, skip, i + 1, dst)
         ELSE IF src[name].t = "dir"
         THEN LET sub == copyDir(src[name].e)
                  made == Put(dst, name, [t |-> "dir", e |-> sub.e])
              IN  IF sub.err THEN [err |-> TRUE, e |-> made]
                  ELSE copyEntries(src, skip, i + 1, made)
         ELSE LET f == copyFile(src[name], src)
                  made == IF f.made THEN Put(dst, name, f.node) ELSE dst
              IN  IF f.err THEN [err |-> TRUE, e |-> made]
                  ELSE copyEntries(src, skip, i + 1, made)

\* copyDir(src, dst) of the directory with entries src into a new
\* directory dst.
copyDir(src) == copyEntries(src, {}, 1, EmptyMap)

\* The names starting with "." other than ".gitignore".
HiddenNames == {".env"}

\* copyFilesExcept(src, dst, exclusions) into the empty directory dst.
copyFilesExcept(src, exclusions) ==
    copyEntries(src, exclusions \cup HiddenNames, 1, EmptyMap)

\* The exclusions CreateMattermostDualWorktree passes.
BaseExclusions == {"server", "webapp", ".git"}

\* Source trees: a hidden file, a file, a subdirectory with a file, a
\* directory with a file and possibly a link to it, an excluded directory,
\* a link to a file next to it, in a subdirectory or nowhere, and a link to
\* a directory.
SourceTrees ==
    {MapOf([n \in {".env", "link.txt", "linkdir", "realdir", "server", "sub",
                   "target.txt"} |->
             CASE n = ".env" -> hd
               [] n = "link.txt" -> lf
               [] n = "linkdir" -> ld
               [] n = "realdir" -> rd
               [] n = "server" -> sv
               [] n = "sub" -> sb
               [] OTHER -> tg]) :
        hd \in {Missing, [t |-> "file", c |-> "secret"]},
        lf \in {Missing} \cup
               [t : {"link"}, to : {<<"target.txt">>, <<"sub", "real.txt">>, <<"gone">>}],
        ld \in {Missing, [t |-> "link", to |-> <<"realdir">>]},
        rd \in {Missing,
                [t |-> "dir", e |-> [n \in {"file.txt"} |-> [t |-> "file", c |-> "inside"]]],
                [t |-> "dir",
                 e |-> [n \in {"alias", "file.txt"} |->
                           IF n = "alias" THEN [t |-> "link", to |-> <<"file.txt">>]
                           ELSE [t |-> "file", c |-> "inside"]]]},
        sv \in {Missing,
                [t |-> "dir", e |-> [n \in {"file.txt"} |-> [t |-> "file", c |-> "main"]]]},
        sb \in {Missing,
                [t |-> "dir", e |-> [n \in {"real.txt"} |-> [t |-> "file", c |-> "data"]]]},
        tg \in {Missing, [t |-> "file", c |-> "target"]}}

InitCopy ==
    /\ fs = [d \in Dirs |-> Absent]
    /\ reg = [r \in Repos |-> [d \in Dirs |-> NoBranch]]
    /\ heads = [r \in Repos |-> HeadsOf({}, {})]
    /\ last = NoCall
    /\ calls = 0
    /\ bp = Idle
    /\ pa = PaIdle
    /\ cf = CfIdle
    /\ fm = Idle
    /\ cl = Idle
    /\ cp \in [phase : {"input"}, src : SourceTrees, err : {FALSE},
                dst : {EmptyMap}]
    /\ cn = Idle
    /\ pr = Idle

\* copyFilesExcept(mc.MattermostPath, targetDir, {"server", "webapp", ".git"})
CopyBase ==
    /\ cp.phase = "input"
    /\ LET out == copyFilesExcept(cp.src, BaseExclusions)
       IN  cp' = [cp EXCEPT !.phase = "copied", !.err = out.err, !.dst = out.e]
    /\ UNCHANGED <<fs, reg, heads, last, calls, pa, cf, fm, cl, cn, pr, bp>>

NextCopy == CopyBase

SpecCopy == InitCopy /\ [][NextCopy]_vars

(***************************************************************************)
(* wt clean: RunClean (part_006, lines 13-89) over the worktrees           *)
(* ListWorktrees reports (part_013, lines 21-91).  A worktree is described *)
(* by what is true of it (changes: it has uncommitted changes; hours: the  *)
(* hours elapsed since its last commit) and by whether the two git queries *)
(* of ListWorktrees succeed on it.  The response is the line typed at the  *)
(* prompt, a sequence of characters.                                       *)
(***************************************************************************)
staleDays == 30

\* isWorktreeDirty: git status --porcelain; a failing query reads as clean.
isWorktreeDirty(g) == IF g.statusOk THEN g.changes ELSE FALSE

\* getLastCommitTime, as the hours time.Since measures from the time it
\* returns: the zero time on a failing query, whose distance from now
\* saturates at the largest Duration (2^63 - 1 ns, 2562047 hours).
getLastCommitTime(g) == IF g.logOk THEN g.hours ELSE 2562047

\* int(time.Since(wt.LastCommit).Hours() / 24): truncation towards zero.
daysSince(hours) == IF hours >= 0 THEN hours \div 24 ELSE 0 - ((0 - hours) \div 24)

\* The WorktreeInfo records ListWorktrees fills in (part_013:58-64).
WorktreeInfo(gs) ==
    [i \in DOMAIN gs |-> [IsDirty |-> isWorktreeDirty(gs[i]),
                          LastCommit |-> getLastCommitTime(gs[i])]]

\* strings.ToLower and strings.TrimSpace on the characters the prompt sees.
ToLower(text) ==
    [i \in DOMAIN text |->
        CASE text[i] = "Y" -> "y"
          [] text[i] = "E" -> "e"
          [] text[i] = "S" -> "s"
          [] text[i] = "N" -> "n"
          [] OTHER -> text[i]]

RECURSIVE TrimSpace(_)
TrimSpace(text) ==
    IF text = <<>> THEN text
    ELSE IF Head(text) \in {" ", "\n"} THEN TrimSpace(Tail(text))
    ELSE IF text[Len(text)] \in {" ", "\n"}
    THEN TrimSpace(SubSeq(text, 1, Len(text) - 1))
    ELSE text

\* RunClean.  rmFail: the worktrees on which git worktree remove fails for a
\* reason of its own; without -f git also refuses a worktree with changes
\* (RemoveWorktree passes force = false, part_013:149-151).
RunClean(gs, listOk, response, rmFail) ==
    LET worktrees == WorktreeInfo(gs)
        staleWorktrees ==
            {i \in DOMAIN worktrees :
                /\ ~worktrees[i].IsDirty
                /\ daysSince(worktrees[i].LastCommit) >= staleDays}
        answer == TrimSpace(ToLower(response.text))
        out(res, prompted, removed) ==
            [res |-> res, prompted |-> prompted, stale |-> staleWorktrees,
             removed |-> removed]
    IN  IF ~listOk THEN [out("error", FALSE, {}) EXCEPT !.stale = {}]
        ELSE IF Len(gs) = 0 \/ staleWorktrees = {} THEN out("ok", FALSE, {})
        ELSE IF response.err THEN out("error", TRUE, {})
        ELSE IF answer # <<"y">> /\ answer # <<"y", "e", "s">>
        THEN out("aborted", TRUE, {})
        ELSE out("ok", TRUE,
                 {i \in staleWorktrees : ~gs[i].changes /\ i \notin rmFail})

GitStates ==
    [statusOk : BOOLEAN, changes : BOOLEAN, logOk : BOOLEAN,
     hours : {0, 719, 720}]

Responses ==
    [err : {FALSE},
     text : {<<"y", "\n">>, <<"Y", "E", "S", "\n">>, <<" ", "y", " ", "\n">>,
             <<"n", "\n">>, <<"\n">>, <<"y", "e", "\n">>}]
    \cup {[err |-> TRUE, text |-> <<"y">>]}

InitClean ==
    /\ fs = [d \in Dirs |-> Absent]
    /\ reg = [r \in Repos |-> [d \in Dirs |-> NoBranch]]
    /\ heads = [r \in Repos |-> HeadsOf({}, {})]
    /\ last = NoCall
    /\ calls = 0
    /\ bp = Idle
    /\ pa = PaIdle
    /\ cf = CfIdle
    /\ fm = Idle
    /\ cl = Idle
    /\ cp = Idle
    /\ pr = Idle
    /\ cn \in [phase : {"input"},
               gs : {<<>>} \cup [1..1 -> GitStates] \cup [1..2 -> GitStates],
               listOk : BOOLEAN, response : Responses, rmFail : SUBSET {1},
               out : {Idle}]

Clean ==
    /\ cn.phase = "input"
    /\ cn' = [cn EXCEPT !.phase = "done",
                        !.out = RunClean(cn.gs, cn.listOk, cn.response, cn.rmFail)]
    /\ UNCHANGED <<fs, reg, heads, last, calls, pa, cf, fm, cl, cp, pr, bp>>

NextClean == Clean

SpecClean == InitClean /\ [][NextClean]_vars

(***************************************************************************)
(* Properties of wt clean (specification SpecClean).                       *)
(***************************************************************************)
CleanRan == cn # Idle /\ cn.phase = "done"

\* C25 (as stated): wt clean removes a worktree only if it has no
\* uncommitted changes and its last commit is at least 30 days old, and
\* removes nothing unless the user answered the prompt affirmatively.
C25_CleanRemovesOnlyCleanAndStale ==
    CleanRan =>
        /\ \A i \in cn.out.removed :
              /\ ~cn.gs[i].changes
              /\ cn.gs[i].hours >= staleDays * 24
        /\ cn.out.removed # {} =>
              /\ ~cn.response.err
              /\ TrimSpace(ToLower(cn.response.text)) \in {<<"y">>, <<"y", "e", "s">>}

\* What does hold: nothing with changes is removed, nothing is removed
\* without an affirmative answer, and a worktree whose commit time was read
\* is removed only when that time is at least 30 days back.
CleanRemovesOnlyWhatItReadAsStale ==
    CleanRan =>
        /\ \A i \in cn.out.removed :
              /\ ~cn.gs[i].changes
              /\ cn.gs[i].logOk => cn.gs[i].hours >= staleDays * 24
        /\ cn.out.removed # {} =>
              /\ cn.out.prompted
              /\ ~cn.response.err
              /\ TrimSpace(ToLower(cn.response.text)) \in {<<"y">>, <<"y", "e", "s">>}

(***************************************************************************)
(* Two invocations running at once (specification SpecSteps).  Each is a   *)
(* CreateMattermostDualWorktree or a RemoveMattermostDualWorktree call     *)
(* that advances one step at a time, a step being one filesystem or git    *)
(* operation of the function (the reads that open a function are one       *)
(* step, the two prunes of a pair one step); the steps of the two calls    *)
(* interleave freely on the shared world fs, reg, heads.  pr[p] is the     *)
(* call of process p: its command (op, branch, env), its position pc, the  *)
(* two flags of the cleanup closure, its result, the steps it has taken    *)
(* (each with whether it succeeded or, for a cleanup step, acted) and      *)
(* solo, the outcome the same command has when it runs alone on the        *)
(* initial world.                                                          *)
(***************************************************************************)
Procs == {1, 2}

\* Where CreateMattermostDualWorktree goes after the step at pc, ok telling
\* whether the step succeeded, for a flow that never turns back on a failure.
CreateFlow_ContinuesAfterFailure(pc, ok) ==
    CASE pc = "stat" -> IF ok THEN "prune" ELSE "done"
      [] pc = "prune" -> "mkdir"
      [] pc = "mkdir" -> "base"
      [] pc = "base" -> "primary"
      [] pc = "primary" -> "companion"
      [] pc = "companion" -> "symlink"
      [] pc = "symlink" -> "aux"
      [] pc = "aux" -> "ports"
      [] pc = "ports" -> "done"
      [] pc = "rmM" -> "rmE"
      [] pc = "rmE" -> "cprune"
      [] pc = "cprune" -> "rmall"
      [] OTHER -> "done"

\* Where CreateMattermostDualWorktree goes after the step at pc: on to the
\* next step, out on a failure before or at MkdirAll, into the cleanup
\* closure (rmM, rmE, cprune, rmall) on a later failure.
CreateFlow(pc, ok) ==
    CASE pc = "stat" -> IF ok THEN "prune" ELSE "done"
      [] pc = "prune" -> "mkdir"
      [] pc = "mkdir" -> IF ok THEN "base" ELSE "done"
      [] pc = "base" -> IF ok THEN "primary" ELSE "rmM"
      [] pc = "primary" -> IF ok THEN "companion" ELSE "rmM"
      [] pc = "companion" -> IF ok THEN "symlink" ELSE "rmM"
      [] pc = "symlink" -> IF ok THEN "aux" ELSE "rmM"
      [] pc = "aux" -> IF ok THEN "ports" ELSE "rmM"
      [] pc = "ports" -> "done"
      [] pc = "rmM" -> "rmE"
      [] pc = "rmE" -> "cprune"
      [] pc = "cprune" -> "rmall"
      [] OTHER -> "done"

\* One step of CreateMattermostDualWorktree by the call q on world w.  A
\* step finds the directory as the other call left it: MkdirAll accepts an
\* existing directory, git worktree add creates the missing parents of its
\* path, and the copies fail into a directory that is gone.
StepOfCreate(w, q) ==
    LET d == GetMattermostWorktreePath(q.branch)
        there == w.fs[d].exists
        made == [w EXCEPT !.fs[d] = IF there THEN @ ELSE EmptyDir]
        baseBranch == GetDefaultBranch(w.heads["mattermost"])
        add(r, step) ==
            createWorktreeForRepo(made, r, q.branch, baseBranch, d,
                                  q.env.fault # step)
        files == IF there /\ w.fs[d].unit["mattermost"] # "none"
                 THEN FilesOf(q.env)
                 ELSE FilesOf([q.env EXCEPT !.fault = "aux"])
        copy == copyMattermostFiles(files, 1, 1, NoCopy)
        u == updateConfigPorts(w.fs[d].config, q.ports[1], q.ports[2],
                               IF q.env.fault = "ports" THEN "write_err" ELSE "ok")
        Out(w1, ok, acted) ==
            LET to == CreateFlow(q.pc, ok)
            IN  [w |-> w1,
                 q |-> [q EXCEPT
                          !.pc = to,
                          !.trace = Append(@, [step |-> q.pc, ok |-> ok /\ acted]),
                          !.serverWorktreeCreated = @ \/ (q.pc = "primary" /\ ok),
                          !.enterpriseWorktreeCreated = @ \/ (q.pc = "companion" /\ ok),
                          !.failedAt = IF ok \/ q.pc = "ports" THEN @
                                       ELSE IF q.pc = "stat" THEN "exists" ELSE q.pc,
                          !.res = IF to # "done" THEN @
                                  ELSE IF q.pc = "ports" THEN "ok" ELSE "error"]]
    IN  CASE q.pc = "stat" -> Out(w, ~there, TRUE)
          [] q.pc = "prune" ->
                Out(WorktreePrune(WorktreePrune(w, "mattermost"), "enterprise"),
                    TRUE, TRUE)
          [] q.pc = "mkdir" ->
                IF q.env.fault = "mkdir" THEN Out(w, FALSE, TRUE)
                ELSE Out(made, TRUE, TRUE)
          [] q.pc = "base" -> Out(w, q.env.fault # "base" /\ there, TRUE)
          [] q.pc = "primary" ->
                Out(add("mattermost", "primary").w,
                    add("mattermost", "primary").ok, TRUE)
          [] q.pc = "companion" ->
                Out(add("enterprise", "companion").w,
                    add("enterprise", "companion").ok, TRUE)
          [] q.pc = "symlink" -> Out(w, q.env.fault # "symlink" /\ there, TRUE)
          [] q.pc = "aux" ->
                IF copy.err # "none" THEN Out(w, FALSE, TRUE)
                ELSE Out([w EXCEPT !.fs[d].config = q.env.src], TRUE, TRUE)
          [] q.pc = "ports" ->
                IF w.fs[d].config.kind = "absent" THEN Out(w, TRUE, FALSE)
                ELSE Out([w EXCEPT !.fs[d].config = u.file], u.status = "ok", TRUE)
          [] q.pc = "rmM" ->
                IF q.serverWorktreeCreated
                THEN Out(removeWorktreeFromRepo(w, "mattermost", d,
                                                "mattermost" \notin q.env.rmFail),
                         TRUE, TRUE)
                ELSE Out(w, TRUE, FALSE)
          [] q.pc = "rmE" ->
                IF q.enterpriseWorktreeCreated
                THEN Out(removeWorktreeFromRepo(w, "enterprise", d,
                                                "enterprise" \notin q.env.rmFail),
                         TRUE, TRUE)
                ELSE Out(w, TRUE, FALSE)
          [] q.pc = "cprune" ->
                Out(WorktreePrune(WorktreePrune(w, "mattermost"), "enterprise"),
                    TRUE, TRUE)
          [] OTHER -> Out(RemoveAll(w, d), TRUE, TRUE)

\* One step of RemoveMattermostDualWorktree by the call q on world w;
\* q.env.rmFail are the repositories whose git worktree remove fails.
StepOfRemove(w, q) ==
    LET d == GetMattermostWorktreePath(q.branch)
        Out(w1, to, at) ==
            [w |-> w1,
             q |-> [q EXCEPT !.pc = to,
                             !.trace = Append(@, [step |-> q.pc, ok |-> at = "none"]),
                             !.failedAt = at,
                             !.res = IF to # "done" THEN @
                                     ELSE IF at = "none" THEN "ok" ELSE "error"]]
        unit(r, to, at) ==
            IF CanRemoveWorktree(w, r, d, r \notin q.env.rmFail)
            THEN Out(removeWorktreeFromRepo(w, r, d, TRUE), to, "none")
            ELSE Out(w, "done", at)
    IN  CASE q.pc = "stat" ->
                IF ~w.fs[d].exists THEN Out(w, "done", "not_found")
                ELSE IF ~IsMattermostDualWorktree(w.fs[d])
                THEN Out(w, "done", "not_dual")
                ELSE Out(w, "rmM", "none")
          [] q.pc = "rmM" -> unit("mattermost", "rmE", "primary")
          [] q.pc = "rmE" -> unit("enterprise", "rmall", "companion")
          [] OTHER -> Out(RemoveAll(w, d), "done", "none")

\* The ports a create call is given.
StepPorts == <<PortRangeStart, PortRangeStart + MetricsPortOffset>>

StepEnv(fault, rmFail) ==
    [fault |-> fault, rmFail |-> rmFail, src |-> MainConfig, opt |-> AllCopied]

\* The outcome of a command that runs alone on world w.
Solo(w, op, branch, env) ==
    LET d == GetMattermostWorktreePath(branch)
        c == CreateMattermostDualWorktree(w, branch, NoBranch, StepPorts[1],
                                          StepPorts[2], env)
        r == RemoveMattermostDualWorktree(w, branch, env.rmFail)
    IN  IF op = "create"
        THEN [res |-> c.res, failedAt |-> c.failedAt, dir |-> c.w.fs[d]]
        ELSE [res |-> r.last.res, failedAt |-> r.last.failedAt, dir |-> r.w.fs[d]]

\* The worlds the two calls start in: each LogicalWorktree directory either
\* absent or a dual worktree a finished create has left.
StepWorlds ==
    LET empty == [fs |-> [d \in Dirs |-> Absent],
                  reg |-> [r \in Repos |-> [d \in Dirs |-> NoBranch]],
                  heads |-> [r \in Repos |-> HeadsOf({Release}, {})]]
        with(w, b) == CreateMattermostDualWorktree(
                          w, b, NoBranch, PortRangeStart + 1,
                          PortRangeStart + 1 + MetricsPortOffset,
                          StepEnv("none", {})).w
    IN  {empty, with(empty, <<"a", "/", "b">>), with(empty, <<"c">>),
         with(with(empty, <<"a", "/", "b">>), <<"c">>)}

\* The commands: process 1 works on a/b, process 2 on a/b too, on a-b, whose
\* directory is the one of a/b, or on c.
StepCommands(p) ==
    IF p = 1
    THEN [op : {"create"}, branch : {<<"a", "/", "b">>},
          env : {StepEnv(f, {}) : f \in Faults}
                \cup {StepEnv("companion", {"mattermost"}), StepEnv("aux", Repos)}]
         \cup [op : {"remove"}, branch : {<<"a", "/", "b">>},
               env : {StepEnv("none", {}), StepEnv("none", {"enterprise"})}]
    ELSE [op : {"create"}, branch : {<<"a", "/", "b">>, <<"a", "-", "b">>, <<"c">>},
          env : {StepEnv("none", {}), StepEnv("companion", {})}]
         \cup [op : {"remove"}, branch : {<<"a", "-", "b">>, <<"c">>},
               env : {StepEnv("none", {})}]

InitSteps ==
    /\ \E w \in StepWorlds :
          /\ fs = w.fs
          /\ reg = w.reg
          /\ heads = w.heads
          /\ \E c1 \in StepCommands(1), c2 \in StepCommands(2) :
                pr = [p \in Procs |->
                        LET c == IF p = 1 THEN c1 ELSE c2
                        IN  [op |-> c.op, branch |-> c.branch, env |-> c.env,
                             ports |-> StepPorts, pc |-> "stat",
                             serverWorktreeCreated |-> FALSE,
                             enterpriseWorktreeCreated |-> FALSE,
                             res |-> "none", failedAt |-> "none", trace |-> <<>>,
                             solo |-> Solo(w, c.op, c.branch, c.env)]]
    /\ last = NoCall
    /\ calls = 0
    /\ bp = Idle
    /\ pa = PaIdle
    /\ cf = CfIdle
    /\ fm = Idle
    /\ cl = Idle
    /\ cp = Idle
    /\ cn = Idle

TakeStep(p, out) ==
    /\ fs' = out.w.fs
    /\ reg' = out.w.reg
    /\ heads' = out.w.heads
    /\ pr' = [pr EXCEPT ![p] = out.q]
    /\ UNCHANGED <<last, calls, pa, cf, fm, cl, cp, cn, bp>>

CreateStep ==
    \E p \in Procs :
        /\ pr[p].op = "create"
        /\ pr[p].pc # "done"
        /\ TakeStep(p, StepOfCreate(World, pr[p]))

RemoveStep ==
    \E p \in Procs :
        /\ pr[p].op = "remove"
        /\ pr[p].pc # "done"
        /\ TakeStep(p, StepOfRemove(World, pr[p]))

NextSteps == CreateStep \/ RemoveStep

SpecSteps == InitSteps /\ [][NextSteps]_vars

(***************************************************************************)
(* Properties of the interleaved calls (specification SpecSteps).          *)
(***************************************************************************)
StepsRunning == pr # Idle

BothDone == StepsRunning /\ \A p \in Procs : pr[p].pc = "done"

PathOf(p) == GetMattermostWorktreePath(pr[p].branch)

\* Process p ended as its command ends alone: same result, same failing
\* step, same LogicalWorktree directory.
EndedAsAlone(p) ==
    /\ pr[p].res = pr[p].solo.res
    /\ pr[p].failedAt = pr[p].solo.failedAt
    /\ fs[PathOf(p)] = pr[p].solo.dir

\* C21 (as stated): two concurrent invocations that create or remove dual
\* worktrees for different branch names never interfere: under every
\* interleaving each ends with the outcome it would have had running alone,
\* its LogicalWorktree directory being what its own run alone leaves.
C21_ConcurrentRunsDoNotInterfere ==
    (BothDone /\ pr[1].branch # pr[2].branch) => \A p \in Procs : EndedAsAlone(p)

\* What does hold: calls whose LogicalWorktree paths differ do not interfere.
DisjointPathsDoNotInterfere ==
    (BothDone /\ PathOf(1) # PathOf(2)) => \A p \in Procs : EndedAsAlone(p)

\* Both calls create the dual worktree of one branch.
SameBranchCreates ==
    /\ BothDone
    /\ pr[1].branch = pr[2].branch
    /\ \A p \in Procs : pr[p].op = "create"

\* C32 (as stated): when two invocations create the dual worktree of the
\* same branch at once and either returns success, a valid LogicalWorktree
\* of the branch exists once both have returned: no rollback deletes what
\* the other invocation produced.
C32_SuccessLeavesWorktree ==
    (SameBranchCreates /\ \E p \in Procs : pr[p].res = "ok") =>
        IsMattermostDualWorktree(fs[PathOf(1)])

\* What does hold: the two creates of one branch never both succeed.
SameBranchCreatesNotBothOk ==
    SameBranchCreates => \E p \in Procs : pr[p].res = "error"

\* The creation steps (those of Steps) the call of p has begun, in the order
\* it began them, each with whether it succeeded.
Begun(p) ==
    LET IsCreationStep(x) == \E i \in DOMAIN Steps : x.step = Steps[i]
    IN  SelectSeq(pr[p].trace, IsCreationStep)

\* C26: a creation begins its steps in the fixed order directory creation,
\* base file copy, primary unit, companion unit, (links,) auxiliary file
\* copy, port configuration, and begins a step only when every earlier one
\* succeeded; the auxiliary files are copied only once this call has created
\* both units.
C26_StepsInOrderEachAfterSuccess ==
    StepsRunning =>
        \A p \in Procs :
            pr[p].op = "create" =>
                /\ Len(Begun(p)) <= Len(Steps)
                /\ \A i \in DOMAIN Begun(p) :
                      /\ Begun(p)[i].step = Steps[i]
                      /\ i < Len(Begun(p)) => Begun(p)[i].ok
                /\ (\E i \in DOMAIN Begun(p) : Begun(p)[i].step = "aux") =>
                      /\ pr[p].serverWorktreeCreated
                      /\ pr[p].enterpriseWorktreeCreated

\* A creation that went through all its steps next to one that stopped at
\* the primary unit and never began the companion unit.
C26_Witness ==
    /\ BothDone
    /\ \E p \in Procs :
          /\ pr[p].op = "create"
          /\ pr[p].res = "ok"
          /\ Len(Begun(p)) = Len(Steps)
    /\ \E p \in Procs :
          /\ pr[p].op = "create"
          /\ pr[p].failedAt = "primary"
          /\ Begun(p)[Len(Begun(p))].step = "primary"

RolledBack(p) ==
    /\ pr[p].op = "create"
    /\ pr[p].pc = "done"
    /\ \E i \in DOMAIN pr[p].trace : pr[p].trace[i].step = "rmall"

\* Where the cleanup step is in the trace of a rolled-back creation.
Position(p, step) == CHOOSE i \in DOMAIN pr[p].trace : pr[p].trace[i].step = step

\* C27 (as stated): rollback removes the companion unit (if created) before
\* the primary unit (if created), then deletes the LogicalWorktree
\* directory, and only after that prunes both registries.
C27_RollbackCompanionPrimaryDeletePrune ==
    StepsRunning =>
        \A p \in Procs :
            RolledBack(p) =>
                /\ (pr[p].serverWorktreeCreated /\ pr[p].enterpriseWorktreeCreated) =>
                      Position(p, "rmE") < Position(p, "rmM")
                /\ Position(p, "rmM") < Position(p, "rmall")
                /\ Position(p, "rmall") < Position(p, "cprune")

\* The order the cleanup closure has: primary unit, companion unit, prune,
\* delete.
RollbackPrimaryCompanionPruneDelete ==
    StepsRunning =>
        \A p \in Procs :
            RolledBack(p) =>
                /\ Position(p, "rmM") < Position(p, "rmE")
                /\ Position(p, "rmE") < Position(p, "cprune")
                /\ Position(p, "cprune") < Position(p, "rmall")
                /\ pr[p].trace[Position(p, "rmM")].ok = pr[p].serverWorktreeCreated
                /\ pr[p].trace[Position(p, "rmE")].ok = pr[p].enterpriseWorktreeCreated

(***************************************************************************)
(* The paths of two branch names (specification SpecPaths): the directory  *)
(* GetMattermostWorktreePath gives each name and the two unit paths        *)
(* CreateMattermostDualWorktree derives from it (part_012, lines 201-204). *)
(* A path is the sequence of its components below the worktree base path.  *)
(***************************************************************************)
\* Branch names of one to three characters, some of which SanitizeBranchName
\* replaces.
PathBranches ==
    UNION {[1..n -> {"a", "/", "-", ":"}] : n \in 1..3}

UnitPaths(branch) ==
    LET worktreeName == <<"mattermost-">> \o GetMattermostWorktreePath(branch)
        sanitizedBranch == SanitizeBranchName(branch)
    IN  [targetDir |-> <<worktreeName>>,
         mattermostWorktreePath |->
             <<worktreeName, <<"mattermost-">> \o sanitizedBranch>>,
         enterpriseWorktreePath |->
             <<worktreeName, <<"enterprise-">> \o sanitizedBranch>>]

InitPaths ==
    /\ fs = [d \in Dirs |-> Absent]
    /\ reg = [r \in Repos |-> [d \in Dirs |-> NoBranch]]
    /\ heads = [r \in Repos |-> HeadsOf({}, {})]
    /\ last = NoCall
    /\ calls = 0
    /\ pa = PaIdle
    /\ cf = CfIdle
    /\ fm = Idle
    /\ cl = Idle
    /\ cp = Idle
    /\ cn = Idle
    /\ pr = Idle
    /\ bp \in [phase : {"input"}, branch : [1..2 -> PathBranches],
               paths : {<<>>}]

ResolvePaths ==
    /\ bp.phase = "input"
    /\ bp' = [bp EXCEPT !.phase = "resolved",
                        !.paths = [i \in 1..2 |-> UnitPaths(bp.branch[i])]]
    /\ UNCHANGED <<fs, reg, heads, last, calls, pa, cf, fm, cl, cp, cn, pr>>

NextPaths == ResolvePaths

SpecPaths == InitPaths /\ [][NextPaths]_vars

\* C33 (as stated): two distinct branch names never resolve to the same
\* LogicalWorktree directory, nor to a common unit path.
C33_PathsInjective ==
    (bp.phase = "resolved" /\ bp.branch[1] # bp.branch[2]) =>
        /\ bp.paths[1].targetDir # bp.paths[2].targetDir
        /\ bp.paths[1].mattermostWorktreePath # bp.paths[2].mattermostWorktreePath
        /\ bp.paths[1].enterpriseWorktreePath # bp.paths[2].enterpriseWorktreePath

\* What does hold: distinct names made of characters that are neither
\* replaced nor the replacement have directories of their own.
PathsInjectiveOnPlainNames ==
    (bp.phase = "resolved" /\ bp.branch[1] # bp.branch[2]
     /\ \A i \in 1..2 : \A k \in DOMAIN bp.branch[i] :
            bp.branch[i][k] \notin ReplacedChars \cup {"-"}) =>
        bp.paths[1].targetDir # bp.paths[2].targetDir

(***************************************************************************)
(* Properties of the lifecycle (specification Spec).  last describes the   *)
(* call that produced the current state.                                   *)
(***************************************************************************)
LastDir == fs[GetMattermostWorktreePath(last.branch)]

CreateReturned == last.op = "create" /\ last.res \in {"ok", "error"}

\* The steps of a create that run once the directory exists and whose
\* failure makes the call fail.
FatalSteps == {"base", "primary", "companion", "symlink", "aux"}

C2_AnyFailureRollsBack ==
    (last.op = "create"
     /\ (last.failedAt \in {"base", "primary", "companion", "aux"}
         \/ last.cfgStatus = "error")) =>
        (last.res = "error" /\ ~LastDir.exists)

\* C2, amended: a failure of the base file copy, the primary unit, the
\* companion unit, the symlinks or the auxiliary file copy makes the call
\* return an error with the directory gone; a failure of the port
\* configuration is a warning: the call succeeds and the dual worktree stays.
C2_FatalFailureRollsBack ==
    /\ (last.op = "create" /\ last.failedAt \in FatalSteps) =>
            (last.res = "error" /\ ~LastDir.exists)
    /\ (last.op = "create" /\ last.cfgStatus = "error") =>
            (last.res = "ok" /\ IsMattermostDualWorktree(LastDir))

\* The auxiliary file copy failed after both units had been created, and
\* the directory is gone.
C2_Witness ==
    /\ last.op = "create" /\ last.res = "error"
    /\ last.failedAt = "aux" /\ last.err = "io"
    /\ ~LastDir.exists

\* The environment in which no collaborator fails.
NoFault == [fault |-> "none", rmFail |-> {}, src |-> MainConfig, opt |-> AllCopied]

\* Some start point for the branch exists in both repositories: the branch
\* itself or the base branch.
BaseResolves(w, branch, baseBranch0) ==
    LET baseBranch == IF baseBranch0 = NoBranch
                      THEN GetDefaultBranch(w.heads["mattermost"])
                      ELSE baseBranch0
    IN  \A r \in Repos :
            {branch, baseBranch} \cap (w.heads[r].local \cup w.heads[r].remote) # {}

\* A create failed at a step after the directory was created, because a
\* collaborator failed, and was rolled back.
RolledBackByFault ==
    /\ last.op = "create" /\ last.res = "error"
    /\ last.failedAt \in FatalSteps
    /\ last.err \in {"io", "git"}

\* C3: after a create failed at a step after directory creation and rolled
\* back, the same checkout made again with no fault (and a start point that
\* exists in both repositories) succeeds and leaves a dual worktree:
\* nothing the failed attempt left blocks it.
C3_RetryAfterRollbackSucceeds ==
    (RolledBackByFault /\ BaseResolves(World, last.branch, last.base)) =>
        LET retry == runMattermostCheckout(
                         World, last.branch, last.base, <<0, 0>>,
                         <<PortRangeStart, PortRangeStart + MetricsPortOffset>>,
                         NoFault)
        IN  /\ retry.last.res = "ok"
            /\ IsMattermostDualWorktree(
                   retry.w.fs[GetMattermostWorktreePath(last.branch)])

\* A rollback in which the forced removal of the primary unit failed: the
\* primary repository still registers the unit of the deleted directory.
C3_Witness ==
    /\ RolledBackByFault /\ BaseResolves(World, last.branch, last.base)
    /\ reg["mattermost"][GetMattermostWorktreePath(last.branch)] # NoBranch

\* Repository r registers a unit under LogicalWorktree directory d although
\* the directory is gone.
StaleEntry(r, d) == ~fs[d].exists /\ reg[r][d] # NoBranch

\* C28: a create prunes both registries before it creates anything, so in
\* every state in which a registry holds an entry for a unit of a deleted
\* LogicalWorktree directory, a create at that path (no collaborator failing,
\* a start point present in both repositories) succeeds, leaves a dual
\* worktree and registers both of its units.
C28_StaleEntryNeverBlocksCreate ==
    \A b \in Branches :
        LET d == GetMattermostWorktreePath(b)
            out == CreateMattermostDualWorktree(
                       World, b, NoBranch, PortRangeStart,
                       PortRangeStart + MetricsPortOffset, NoFault)
        IN  ((\E r \in Repos : StaleEntry(r, d))
             /\ BaseResolves(World, b, NoBranch)) =>
                /\ out.res = "ok"
                /\ IsMattermostDualWorktree(out.w.fs[d])
                /\ \A r \in Repos : out.w.reg[r][d] = b

\* Both registries hold the stale entry of a deleted LogicalWorktree
\* directory while another command has run since.
C28_Witness ==
    \E b \in Branches :
        /\ \A r \in Repos : StaleEntry(r, GetMattermostWorktreePath(b))
        /\ BaseResolves(World, b, NoBranch)
        /\ last.branch # b

\* C37: when a checkout that created a dual worktree with success is followed
\* by a successful remove of the same branch, then after the remove the
\* LogicalWorktree directory does not exist, neither registry holds an entry
\* under it, and a further create for the branch (no collaborator failing,
\* with or without a base override) succeeds, leaves a dual worktree and
\* registers both of its units.
C37_CreateRemoveCreate ==
    [][(/\ last.op = "create" /\ last.res = "ok" /\ ~last.preDual
        /\ last'.op = "remove" /\ last'.res = "ok"
        /\ last'.branch = last.branch) =>
           LET d == GetMattermostWorktreePath(last.branch)
               after == [fs |-> fs', reg |-> reg', heads |-> heads']
           IN  /\ ~after.fs[d].exists
               /\ \A r \in Repos : after.reg[r][d] = NoBranch
               /\ \A baseBranch \in BaseBranches :
                      LET again == runMattermostCheckout(
                                       after, last.branch, baseBranch, <<0, 0>>,
                                       <<PortRangeStart,
                                         PortRangeStart + MetricsPortOffset>>,
                                       NoFault)
                      IN  /\ again.last.res = "ok"
                          /\ ~again.last.preExists
                          /\ IsMattermostDualWorktree(again.w.fs[d])
                          /\ \A r \in Repos : again.w.reg[r][d] = last.branch
      ]_vars

\* The second command of a run was a successful remove of the dual worktree
\* that the first command created for a branch neither repository had: the
\* directory and both registry entries are gone, the branch is still there.
C37_Witness ==
    /\ calls = 2
    /\ last.op = "remove" /\ last.res = "ok" /\ last.preDual
    /\ last.branch = <<"a", "/", "b">>
    /\ ~LastDir.exists
    /\ \A r \in Repos :
           /\ reg[r][GetMattermostWorktreePath(last.branch)] = NoBranch
           /\ last.branch \in heads[r].local

\* A create ran (the checkout did not stop at an existing dual worktree) and
\* returned success.
CreateSucceeded == last.op = "create" /\ last.res = "ok" /\ ~last.preDual

\* C29 (as stated): creation returns success only after the port
\* configuration succeeded, and then the primary unit's config document
\* records exactly the assigned server and metrics ports.
C29_SuccessOnlyAfterPortsConfigured ==
    CreateSucceeded =>
        /\ last.cfgStatus = "ok"
        /\ ExtractPortPairFromConfig(LastDir.config) = last.ports

\* C29, amended: when creation returns success the dual worktree is in
\* place and the port configuration either succeeded, the config document
\* then recording exactly the assigned ports, or failed with a warning.
C29_SuccessRecordsPortsWhenConfigured ==
    CreateSucceeded =>
        /\ IsMattermostDualWorktree(LastDir)
        /\ last.cfgStatus \in {"ok", "error"}
        /\ last.cfgStatus = "ok" =>
               ExtractPortPairFromConfig(LastDir.config) = last.ports

\* A create succeeded with ports of the range written over the ports the
\* copied config recorded.
C29_Witness ==
    /\ CreateSucceeded
    /\ last.cfgStatus = "ok"
    /\ last.ports[1] >= PortRangeStart
    /\ ExtractPortPairFromConfig(LastDir.config) = last.ports
    /\ last.ports # ExtractPortPairFromConfig(MainConfig)

\* C30 (as stated): after a rollback neither repository's registry lists a
\* unit under the LogicalWorktree directory, and no unit is left on disk.
C30_NoUnitRegisteredAfterRollback ==
    (last.op = "create" /\ last.res = "error" /\ last.failedAt \in FatalSteps) =>
        /\ ~LastDir.exists
        /\ \A r \in Repos : reg[r][GetMattermostWorktreePath(last.branch)] = NoBranch

\* C31 (as stated): the removal of a dual LogicalWorktree is all-or-nothing:
\* after an error the directory still classifies as dual with both units
\* registered, after success the directory and both registry entries are
\* gone.
C31_RemovalAllOrNothing ==
    (last.op = "remove" /\ last.preDual) =>
        /\ last.res = "error" =>
              /\ IsMattermostDualWorktree(LastDir)
              /\ \A r \in Repos :
                    reg[r][GetMattermostWorktreePath(last.branch)] # NoBranch
        /\ last.res = "ok" =>
              /\ ~LastDir.exists
              /\ \A r \in Repos :
                    reg[r][GetMattermostWorktreePath(last.branch)] = NoBranch

\* What does hold: a removal that fails at the primary unit leaves the dual
\* worktree whole, one that fails at the companion unit leaves the companion
\* unit alone, one that succeeds leaves nothing.
RemovalLeavesWholeHalfOrNothing ==
    (last.op = "remove" /\ last.preDual) =>
        LET d == GetMattermostWorktreePath(last.branch)
        IN  /\ last.failedAt = "primary" =>
                  /\ IsMattermostDualWorktree(LastDir)
                  /\ \A r \in Repos : reg[r][d] # NoBranch
            /\ last.failedAt = "companion" =>
                  /\ LastDir.exists
                  /\ LastDir.unit["mattermost"] = "none"
                  /\ LastDir.unit["enterprise"] # "none"
                  /\ reg["mattermost"][d] = NoBranch
                  /\ reg["enterprise"][d] # NoBranch
            /\ last.res = "ok" =>
                  /\ ~LastDir.exists
                  /\ \A r \in Repos : reg[r][d] = NoBranch
            /\ last.res = "error" => last.failedAt \in {"primary", "companion"}

\* C34 (as stated): a create that fails after directory creation and rolls
\* back leaves each repository's branches exactly as they were before the
\* call.
C34_RollbackRestoresBranches ==
    [][(last'.op = "create" /\ last'.res = "error"
        /\ last'.failedAt \in FatalSteps) => heads' = heads]_vars

\* What does hold: the rollback leaves the branches the call found and, for
\* each unit the call created on a new branch, that branch.
RollbackKeepsNewBranches ==
    [][(last'.op = "create" /\ last'.res = "error"
        /\ last'.failedAt \in FatalSteps) =>
            \A r \in Repos :
                /\ heads'[r].remote = heads[r].remote
                /\ heads[r].local \subseteq heads'[r].local
                /\ heads'[r].local \subseteq heads[r].local \cup {last'.branch}
                /\ (r = "mattermost" /\ last'.failedAt \in {"companion", "symlink", "aux"})
                       => last'.branch \in heads'[r].local
                /\ (r = "enterprise" /\ last'.failedAt \in {"symlink", "aux"})
                       => last'.branch \in heads'[r].local]_vars

InRepo(r, b) == b \in heads[r].local \cup heads[r].remote

\* C4: when the branch exists in neither repository and the explicit base
\* exists only in the primary repository, and no collaborator fails, the
\* create succeeds with the primary unit rooted at the base and the
\* companion unit rooted at the companion repository's default branch.
C4_CompanionFallsBackToItsDefault ==
    (/\ last.op = "create" /\ last.base # NoBranch
     /\ last.mode = [r \in Repos |-> "base"]
     /\ InRepo("mattermost", last.base) /\ ~InRepo("enterprise", last.base)
     /\ last.err \in {"none", "base_not_found"}) =>
        /\ last.res = "ok"
        /\ last.start["mattermost"] \in {last.base, Origin(last.base)}
        /\ last.start["enterprise"] = GetDefaultBranch(heads["enterprise"])

\* C5: a checkout of a branch whose LogicalWorktree is already a dual
\* worktree returns success and changes no directory, file, unit, registry
\* entry, branch or recorded port.
C5_SecondCreateChangesNothing ==
    [][(last'.op = "create" /\ last'.preDual) =>
          (last'.res = "ok" /\ UNCHANGED <<fs, reg, heads>>)]_vars

\* C38: a checkout of a branch whose LogicalWorktree directory exists and is
\* not a valid dual worktree returns the 'already exists' error for that
\* directory and changes no directory, file, unit, registry entry or branch.
C38_ExistingInvalidDirectoryUntouched ==
    [][(last'.op = "create" /\ last'.preExists /\ ~last'.preDual) =>
          /\ last'.res = "error"
          /\ last'.failedAt = "exists" /\ last'.err = "exists"
          /\ fs[GetMattermostWorktreePath(last'.branch)].exists
          /\ UNCHANGED <<fs, reg, heads>>]_vars

\* A checkout was refused at a directory that holds the companion unit
\* alone, left there by a removal that failed half-way.
C38_Witness ==
    /\ last.op = "create" /\ last.preExists /\ ~last.preDual
    /\ last.err = "exists"
    /\ LastDir.exists
    /\ LastDir.unit["mattermost"] = "none"
    /\ LastDir.unit["enterprise"] # "none"
    /\ reg["enterprise"][GetMattermostWorktreePath(last.branch)] = last.branch

\* A checkout found the dual worktree an earlier checkout had created.
C5_Witness ==
    /\ last.op = "create" /\ last.preDual /\ last.res = "ok"
    /\ calls >= 2

\* The ports the config document of LogicalWorktree d records.
RecordedPorts(d) == PortsOfPair(ExtractPortPairFromConfig(fs[d].config))

\* LogicalWorktree d is a dual worktree whose config document is the one
\* the port configuration of its create wrote.
PortsConfigured(d) ==
    /\ IsMattermostDualWorktree(fs[d])
    /\ fs[d].config.kind = "object"
    /\ fs[d].config.layout = "indent4"

\* C8: after any sequence of checkouts without port overrides (and removes),
\* no two existing dual LogicalWorktrees whose ports were configured record
\* a common port in their config documents, and none records a port of the
\* fixed exclusion.
C8_RecordedPortsDistinct ==
    \A d1 \in Dirs :
        PortsConfigured(d1) =>
            /\ RecordedPorts(d1) \cap ExcludedPorts = {}
            /\ \A d2 \in Dirs \ {d1} :
                   PortsConfigured(d2) =>
                       RecordedPorts(d1) \cap RecordedPorts(d2) = {}

\* The start point createWorktreeForRepo resolves base to in repository r.
BaseStart(r, base) == IF base \in heads[r].local THEN base ELSE Origin(base)

\* A create with an explicit base found the branch in neither repository,
\* and the base in both.
CreatedFromExplicitBase ==
    /\ last.op = "create" /\ last.base # NoBranch
    /\ last.mode = [r \in Repos |-> "base"]
    /\ \A r \in Repos : InRepo(r, last.base)

\* C13: when both repositories contain the explicit base branch and
\* neither contains the requested branch, a create in which no collaborator
\* fails returns success with a primary and a companion unit, each on a new
\* branch of the requested name started at the base branch of its own
\* repository.
C13_BothUnitsStartAtBase ==
    (CreatedFromExplicitBase /\ last.err = "none") =>
        /\ last.res = "ok"
        /\ IsMattermostDualWorktree(LastDir)
        /\ \A r \in Repos :
               /\ last.start[r] = BaseStart(r, last.base)
               /\ LastDir.unit[r] = "worktree"
               /\ reg[r][GetMattermostWorktreePath(last.branch)] = last.branch
               /\ last.branch \in heads[r].local

\* A branch with a replaced character was created from Release in both
\* repositories, where the default branch is another one.
C13_Witness ==
    /\ CreatedFromExplicitBase /\ last.res = "ok"
    /\ last.base = Release /\ last.branch = <<"a", "/", "b">>
    /\ \A r \in Repos : /\ last.start[r] = Release
                         /\ GetDefaultBranch(heads[r]) # Release

\* The base a create without a branch of the requested name starts from:
\* the explicit one, or the primary repository's default branch.
EffectiveBase ==
    IF last.base = NoBranch THEN GetDefaultBranch(heads["mattermost"])
    ELSE last.base

\* The step of a create that makes the unit of repository r.
UnitStep(r) == IF r = "mattermost" THEN "primary" ELSE "companion"

\* C35: in each repository the unit creation of a create attaches to the
\* local branch if there is one, else makes a tracking branch from the
\* remote branch if there is one, else makes a new branch from the effective
\* base, local or as origin/<base>; when the branch exists locally or
\* remotely the base plays no part and its absence is no error.  heads is
\* what the call found, last' what it did.
C35_LocalThenRemoteThenBase ==
    [][last'.op = "create" =>
        \A r \in Repos :
            last'.mode[r] # "none" =>
                LET h == heads[r]
                    base == IF last'.base = NoBranch
                            THEN GetDefaultBranch(heads["mattermost"])
                            ELSE last'.base
                    missing == last'.failedAt = UnitStep(r)
                               /\ last'.err = "base_not_found"
                IN  /\ last'.branch \in h.local =>
                          /\ last'.mode[r] = "existing"
                          /\ last'.start[r] = last'.branch
                          /\ ~missing
                    /\ (last'.branch \notin h.local /\ last'.branch \in h.remote) =>
                          /\ last'.mode[r] = "track"
                          /\ last'.start[r] = Origin(last'.branch)
                          /\ ~missing
                    /\ (last'.branch \notin h.local /\ last'.branch \notin h.remote) =>
                          /\ last'.mode[r] = "base"
                          /\ base \in h.local => last'.start[r] = base
                          /\ (base \notin h.local /\ base \in h.remote) =>
                                 last'.start[r] = Origin(base)
                          /\ missing <=> (base \notin h.local \cup h.remote)]_vars

\* A create given the base Release succeeded: the primary unit attached to
\* the local branch in a repository that has no Release, the companion unit
\* tracks the remote branch.
C35_Witness ==
    /\ last.op = "create" /\ last.res = "ok" /\ last.base = Release
    /\ last.mode["mattermost"] = "existing"
    /\ ~InRepo("mattermost", Release)
    /\ last.mode["enterprise"] = "track"
    /\ last.start["enterprise"] = Origin(last.branch)

\* C19: when a create comes to make the unit of a repository in which the
\* requested branch exists neither locally nor remotely and the effective
\* base exists neither locally nor as origin/<base>, the unit creation
\* fails with "base branch not found", the error naming the base and
\* origin/<base>, and in that repository no branch of the requested name
\* and no unit exist afterwards, on disk or in the registry.
C19_BaseNotFoundCreatesNothing ==
    last.op = "create" =>
        \A r \in Repos :
            (last.mode[r] = "base" /\ ~InRepo(r, EffectiveBase)) =>
                /\ last.res = "error" /\ last.failedAt = UnitStep(r)
                /\ last.err = "base_not_found"
                /\ last.tried = {EffectiveBase, Origin(EffectiveBase)}
                /\ last.branch \notin heads[r].local
                /\ reg[r][GetMattermostWorktreePath(last.branch)] = NoBranch
                /\ LastDir.unit[r] = "none"

\* The base existed in the primary repository only: the companion unit's
\* creation failed for the missing base after the primary repository had
\* got its branch.
C19_Witness ==
    /\ last.op = "create" /\ last.err = "base_not_found"
    /\ last.failedAt = "companion" /\ last.base = Release
    /\ last.tried = {Release, Origin(Release)}
    /\ last.branch \in heads["mattermost"].local
    /\ last.branch \notin heads["enterprise"].local

\* A remove call ran on a LogicalWorktree that classified as dual.
RemovedDual == last.op = "remove" /\ last.preDual

Allocated == pa.phase \in {"allocated", "recorded"}

\* C6: neither port of a pair the allocator returned is in the reserved
\* set, the fixed exclusion together with every port an existing dual
\* worktree records.
C6_AllocatedPairNotReserved ==
    Allocated =>
        /\ pa.auto[1] \notin GetReservedPorts(pa.existing)
        /\ pa.auto[2] \notin GetReservedPorts(pa.existing)

\* The allocator returned a pair although existing dual worktrees reserve
\* ports of the range.
C6_Witness ==
    /\ Allocated
    /\ pa.auto # <<0, 0>>
    /\ Cardinality(GetReservedPorts(pa.existing)
                   \cap (PortRangeStart..PortRangeEnd)) >= 3

\* C7, as stated: metricsPort = serverPort + MetricsPortOffset for every
\* pair the allocator returns, the exhausted range included, and for every
\* pair a create records, whichever ports the caller supplied.
C7_OffsetAlways ==
    /\ Allocated => pa.auto[2] = pa.auto[1] + MetricsPortOffset
    /\ pa.phase = "recorded" =>
           pa.recorded[2] = pa.recorded[1] + MetricsPortOffset

\* C7, amended: metricsPort = serverPort + MetricsPortOffset for every pair
\* the allocator returns other than <<0, 0>>, its answer when the range is
\* exhausted, and for the pair a create records when the caller supplied
\* neither port.
C7_OffsetOnAllocatedPairs ==
    /\ (Allocated /\ pa.auto # <<0, 0>>) =>
           pa.auto[2] = pa.auto[1] + MetricsPortOffset
    /\ (pa.phase = "recorded" /\ pa.given = <<0, 0>>) =>
           pa.recorded[2] = pa.recorded[1] + MetricsPortOffset

\* A pair of the range was allocated past reserved and bound ports and
\* recorded for a caller that supplied no port.
C7_Witness ==
    /\ pa.phase = "recorded" /\ pa.given = <<0, 0>>
    /\ pa.auto[1] > PortRangeStart
    /\ pa.recorded = pa.auto

\* The candidate server ports isPortPairAvailable accepts in the case at
\* hand.
AvailableCandidates ==
    {c \in PortRangeStart..maxServerPort :
        isPortPairAvailable(c, GetReservedPorts(pa.existing), pa.bound)}

\* C11: when exactly one candidate server port of the range is available,
\* the allocator returns that port with its metrics port, whatever the
\* random draws and the start offset of the sequential scan.
C11_LastRemainingPairIsReturned ==
    Allocated =>
        \A c \in AvailableCandidates :
            AvailableCandidates = {c} =>
                pa.auto = <<c, c + MetricsPortOffset>>

\* The one available candidate was the first of the range, the others
\* being reserved by existing worktrees or bound on localhost: a scan that
\* starts past it reaches it only by wrapping around.
C11_Witness ==
    /\ Allocated
    /\ AvailableCandidates = {PortRangeStart}
    /\ pa.existing # {} /\ pa.bound # {}
    /\ pa.auto = <<PortRangeStart, PortRangeStart + MetricsPortOffset>>

\* C22, as stated: every pair the allocator returns has its server port in
\* [PortRangeStart, PortRangeEnd - MetricsPortOffset] and its metrics port
\* at most PortRangeEnd, whatever the worktrees, the bound ports and the
\* random draws.
C22_EveryReturnedPairInRange ==
    Allocated =>
        /\ pa.auto[1] >= PortRangeStart
        /\ pa.auto[1] <= PortRangeEnd - MetricsPortOffset
        /\ pa.auto[2] <= PortRangeEnd

\* C22, amended: the same for every pair the allocator returns other than
\* <<0, 0>>, its answer when no pair of the range is available.
C22_AllocatedPairInRange ==
    (Allocated /\ pa.auto # <<0, 0>>) =>
        /\ pa.auto[1] >= PortRangeStart
        /\ pa.auto[1] <= PortRangeEnd - MetricsPortOffset
        /\ pa.auto[2] >= PortRangeStart + MetricsPortOffset
        /\ pa.auto[2] <= PortRangeEnd

\* The allocator returned the last pair of the range, whose metrics port
\* is PortRangeEnd, while ports were reserved and bound.
C22_Witness ==
    /\ Allocated
    /\ pa.auto = <<PortRangeEnd - MetricsPortOffset, PortRangeEnd>>
    /\ pa.existing # {} /\ pa.bound # {}

C36_BoundedProbesScanCoversRangeOnce ==
    pa.phase = "rerun" =>
        LET random == pa.probes.random
            scan == pa.probes.scan
            reserved == GetReservedPorts(pa.existing)
            Probed(seq) == {seq[i] : i \in 1..Len(seq)}
            all == random \o scan
        IN  /\ Len(random) <= PortRandomRetries
            /\ Len(scan) <= portRangeSize
            /\ Len(all) <= PortRandomRetries + portRangeSize
            /\ Probed(all) \subseteq PortRangeStart..maxServerPort
            /\ scan # <<>> => Len(random) = PortRandomRetries
            /\ \A i \in 1..Len(scan) : \A j \in 1..Len(scan) :
                   i # j => scan[i] # scan[j]
            /\ \A i \in 1..(Len(scan) - 1) :
                   scan[i + 1] = PortRangeStart
                       + ((scan[i] - PortRangeStart + 1) % portRangeSize)
            /\ \A i \in 1..(Len(all) - 1) :
                   ~isPortPairAvailable(all[i], reserved, pa.bound)
            /\ IF pa.auto = <<0, 0>>
               THEN /\ Probed(scan) = PortRangeStart..maxServerPort
                    /\ Len(scan) = portRangeSize
                    /\ ~isPortPairAvailable(all[Len(all)], reserved, pa.bound)
               ELSE /\ pa.auto = <<all[Len(all)],
                                    all[Len(all)] + MetricsPortOffset>>
                    /\ isPortPairAvailable(all[Len(all)], reserved, pa.bound)

\* A run spent every random draw and its fallback went through the whole
\* range from a start offset past the first candidate, wrapping around.
C36_Witness ==
    /\ pa.phase = "rerun"
    /\ Len(pa.probes.random) = PortRandomRetries
    /\ Len(pa.probes.scan) = portRangeSize
    /\ pa.probes.scan[1] > PortRangeStart
    /\ pa.probes.scan[Len(pa.probes.scan)] < maxServerPort

\* Every pair a seeded run returns is one of the pairs the allocator can
\* return over all behaviours of its generator.
SeededRunsAreRuns ==
    pa.phase = "rerun" =>
        {pa.auto, pa.again} \subseteq GetAvailablePortsWithRand(pa.existing, pa.bound)

\* The ports the configs of the dual worktrees among the existing ones were
\* written with, zero standing for none.
RecordedByDualWorktrees ==
    UNION {{s, m} \ {0} :
           <<s, m>> \in {x \in (PortRangeStart..PortRangeEnd)
                                \X ({0} \cup (PortRangeStart..PortRangeEnd)) :
                            DualView(ConfigRecording(x[1], x[2])) \in pa.existing}}

\* C24: the reserved set computed from the existing worktrees is exactly
\* the main instance's port and its metrics counterpart together with
\* every non-zero server and metrics port recorded in the config of an
\* existing dual worktree; a dual worktree whose config is missing or does
\* not parse, and a directory that is not dual, contribute nothing.
C24_ReservedIsExclusionAndRecordedPorts ==
    Allocated =>
        GetReservedPorts(pa.existing) =
            {MainRepoPort, MainRepoPort + MetricsPortOffset}
            \cup RecordedByDualWorktrees

\* The allocator ran on a dual worktree recording a server port only, a
\* dual worktree without config and a directory with one unit whose config
\* records a pair: the reserved set has one port of the range.
C24_Witness ==
    /\ Allocated
    /\ pa.existing = {DualView(ConfigRecording(PortRangeStart + 3, 0)),
                      DualView(NoFile),
                      PrimaryOnlyView(ConfigRecording(PortRangeStart + 1,
                                          PortRangeStart + 1 + MetricsPortOffset))}
    /\ GetReservedPorts(pa.existing) \cap (PortRangeStart..PortRangeEnd)
           = {PortRangeStart + 3}

\* C12: when no candidate pair of the range is available, the allocator
\* answers <<0, 0>>, which is no pair of the range, and the checkout that
\* asked for ports (the caller having supplied none) assigns no ports to
\* the new LogicalWorktree.
C12_ExhaustedAssignsNoPorts ==
    /\ (Allocated /\ AvailableCandidates = {}) => pa.auto = <<0, 0>>
    /\ (pa.phase = "recorded" /\ pa.given = <<0, 0>> /\ pa.existing # {}
        /\ AvailableCandidates = {}) =>
           /\ pa.ports = <<0, 0>>
           /\ pa.recorded = <<0, 0>>

(***************************************************************************)
(* Properties of the file mappings (specification SpecFiles).              *)
(***************************************************************************)
FilesDone == fm.phase = "done"

\* What each mapping found in the case at hand.
FoundFiles == FilesOf(FmEnv({}))

\* All matches of the given mappings whose copy has the given outcome.
MatchesWith(mappings, outcome) ==
    {m \in mappings \X (1..MaxMatches) :
        m[2] <= Len(FoundFiles[m[1]]) /\ FoundFiles[m[1]][m[2]] = outcome}

\* C15: a mapping whose glob matches nothing makes the create fail exactly
\* when it is required.  When the required mapping matches nothing the
\* create returns the error "required file not found" and the
\* LogicalWorktree directory is gone; when only mappings that are not
\* required match nothing (and every copy succeeds) the create returns
\* success, those mappings contributing neither a copy nor a warning.
C15_ZeroMatchesFailIffRequired ==
    FilesDone =>
        /\ (fm.files.err = "required_file") <=>
               (\E k \in RequiredMappings : FoundFiles[k] = <<>>)
        /\ fm.files.err = "required_file" =>
               /\ last.res = "error" /\ last.failedAt = "aux"
               /\ last.err = "required_file"
               /\ ~LastDir.exists
        /\ (fm.required = "ok" /\ MatchesWith(OptionalMappings, "fail") = {}) =>
               /\ last.res = "ok" /\ fm.files.err = "none"
               /\ IsMattermostDualWorktree(LastDir)
               /\ fm.files.warned = {}
               /\ \A k \in OptionalMappings :
                      FoundFiles[k] = <<>> =>
                          \A m \in fm.files.copied : m[1] # k

\* The required mapping matched nothing after earlier mappings had copied
\* files, and the rollback went through although the forced removal of a
\* unit failed.
C15_Witness ==
    /\ FilesDone /\ fm.required = "absent"
    /\ fm.files.copied # {}
    /\ last.res = "error" /\ last.err = "required_file"
    /\ ~LastDir.exists
    /\ \E r \in Repos : reg[r][GetMattermostWorktreePath(last.branch)] # NoBranch

\* C16: the failed copy of a file matched by a mapping that is not required
\* never aborts the create: every other match of every mapping is still
\* processed (copied, or warned about if its copy fails too) and, the
\* required file being copied, the create returns success.  The failed
\* copy of the file matched by the required mapping makes the create
\* return an error.
C16_OnlyRequiredCopyFailureAborts ==
    FilesDone =>
        /\ fm.required = "ok" =>
               /\ last.res = "ok" /\ fm.files.err = "none"
               /\ fm.files.warned = MatchesWith(OptionalMappings, "fail")
               /\ fm.files.copied = MatchesWith(DOMAIN FileMappings, "ok")
        /\ fm.required = "fail" =>
               /\ last.res = "error" /\ last.failedAt = "aux"
               /\ last.err = "io" /\ fm.files.err = "io"
               /\ ~LastDir.exists

\* The copy of the first match of the first mapping failed; its second
\* match and the files of later mappings, the required one and the
\* companion repository's among them, were copied and the create succeeded.
C16_Witness ==
    /\ FilesDone /\ last.res = "ok"
    /\ <<1, 1>> \in fm.files.warned
    /\ {<<1, 2>>, <<3, 1>>, <<6, 1>>} \subseteq fm.files.copied

(***************************************************************************)
(* Properties of the classification (specification SpecClassify).          *)
(***************************************************************************)
Classified == cl.phase = "classified"

\* The subdirectories of the listing whose name has the prefix of r.
Subdirectories(r) == {e \in cl.entries : e.type = "dir" /\ e.prefix = r}

\* Those of them that pass the unit check.
UnitSubdirectories(r) == {e \in Subdirectories(r) : isGitWorktree(e.git)}

\* C17, as stated: a directory classifies as dual only if it directly
\* contains exactly one primary-prefixed and exactly one companion-prefixed
\* subdirectory and both are units.
C17_DualOnlyWithExactlyOneOfEach ==
    (Classified /\ cl.dual) =>
        \A r \in Repos :
            /\ Cardinality(Subdirectories(r)) = 1
            /\ UnitSubdirectories(r) = Subdirectories(r)

\* C17, amended: a directory classifies as dual exactly if it directly
\* contains at least one primary-prefixed subdirectory that passes the unit
\* check and at least one companion-prefixed one that does; further
\* subdirectories of either prefix, unit or not, do not matter.  A
\* directory with units of one prefix only never classifies as dual.
C17_DualIffUnitOfEachPrefix ==
    Classified =>
        (cl.dual <=> \A r \in Repos : Cardinality(UnitSubdirectories(r)) >= 1)

\* A directory with a primary unit and no companion unit (only a plain
\* directory, a file and a symlink of that prefix) did not classify as
\* dual.
C17_Witness ==
    /\ Classified /\ ~cl.dual
    /\ UnitSubdirectories("mattermost") # {}
    /\ UnitSubdirectories("enterprise") = {}
    /\ \E e \in cl.entries : e.prefix = "enterprise" /\ e.type = "dir"
    /\ \E e \in cl.entries : e.prefix = "enterprise" /\ e.type = "symlink"

\* C18, as stated: a directory classifies as dual only if, for each prefix,
\* a subdirectory of that prefix holds a .git file that refers into a
\* repository's worktree bookkeeping; plain directories and ordinary
\* clones do not count.
C18_CountsOnlyWorktreeReferences ==
    (Classified /\ cl.dual) =>
        \A r \in Repos : \E e \in Subdirectories(r) : e.git = "worktree"

\* C18, amended: a directory classifies as dual only if, for each prefix,
\* a subdirectory of that prefix holds a .git entry that is a regular file
\* starting with "gitdir:" (wherever it refers to) or a directory.  A
\* prefixed subdirectory with no .git, or whose .git is a file with other
\* content, never counts, nor does a prefixed file or symlink.
C18_CountsGitdirFilesAndClones ==
    (Classified /\ cl.dual) =>
        \A r \in Repos :
            \E e \in cl.entries :
                /\ e.prefix = r /\ e.type = "dir"
                /\ e.git \in {"worktree", "gitdir", "repository"}

\* A directory whose primary-prefixed subdirectories are an ordinary clone
\* and a plain directory, next to a companion unit, classified as dual.
C18_Witness ==
    /\ Classified /\ cl.dual
    /\ {e.git : e \in Subdirectories("mattermost")} = {"repository", "plain"}
    /\ \E e \in Subdirectories("enterprise") : e.git = "worktree"

(***************************************************************************)
(* Properties of the copy (specification SpecCopy).                        *)
(***************************************************************************)
\* Every symbolic link under the source entries is, in the destination
\* entries, a symbolic link of the same name with the same target, at any
\* depth.
RECURSIVE LinksKept(_, _)
LinksKept(src, dst) ==
    \A name \in DOMAIN src :
        /\ src[name].t = "link" =>
               (name \in DOMAIN dst /\ dst[name] = src[name])
        /\ src[name].t = "dir" =>
               /\ name \in DOMAIN dst
               /\ dst[name].t = "dir"
               /\ LinksKept(src[name].e, dst[name].e)

\* The source entries the copy is to take.
Taken == [n \in DOMAIN cp.src \ (BaseExclusions \cup HiddenNames) |-> cp.src[n]]

\* C20: the recursive copy returns without error and every symbolic link
\* of the copied part of the source tree, to a file or to a directory, is a
\* symbolic link with the same target string in the destination, never a
\* copy of what it leads to.
C20_LinksRecreated ==
    cp.phase = "copied" => (~cp.err /\ LinksKept(Taken, cp.dst))

\* No symbolic link under the entries, at any depth.
RECURSIVE NoLinks(_)
NoLinks(src) ==
    \A name \in DOMAIN src :
        /\ src[name].t # "link"
        /\ src[name].t = "dir" => NoLinks(src[name].e)

\* Without symbolic links in the part to copy, the copy returns without
\* error and the destination equals that part of the source.
CopyWithoutLinksIsExact ==
    (cp.phase = "copied" /\ NoLinks(Taken))
        => (~cp.err /\ cp.dst = Taken)

(***************************************************************************)
(* Properties of the config update (specification SpecConfig).             *)
(***************************************************************************)
PortsSet == cf.phase \in {"set", "read"} /\ cf.status = "ok"

\* The fields of a known subtree that the port update is to set.
PortFields(key) ==
    IF key = "ServiceSettings" THEN {"ListenAddress", "SiteURL"}
    ELSE {"ListenAddress"}

\* The fields of subtree key in a document, none if it is no object.
FieldsOf(tree, key) ==
    IF key \in DOMAIN tree /\ IsObj(tree[key]) THEN tree[key].f ELSE EmptyMap

\* C9: setting ports leaves every value other than ServiceSettings.
\* ListenAddress, ServiceSettings.SiteURL and MetricsSettings.ListenAddress
\* as it was: the document has the same unrelated top-level keys with the
\* same values, and each known subtree the same sibling fields with the
\* same values.
C9_OtherValuesUnchanged ==
    PortsSet =>
        LET known == {"ServiceSettings", "MetricsSettings"}
            before == cf.before.tree
            after == cf.after.tree
        IN  /\ DOMAIN after \ known = DOMAIN before \ known
            /\ \A k \in DOMAIN before \ known : after[k] = before[k]
            /\ \A key \in known :
                   LET b == FieldsOf(before, key)
                       a == FieldsOf(after, key)
                   IN  /\ DOMAIN a \ PortFields(key) = DOMAIN b \ PortFields(key)
                       /\ \A f \in DOMAIN b \ PortFields(key) : a[f] = b[f]

\* The content of the file is not a JSON object: invalid JSON, a top-level
\* array or scalar, or the literal null.
NotAnObject(file) == file.kind \in {"invalid", "array", "scalar", "null"}

\* C39: setting ports on a file whose content is not a JSON object returns
\* an error, does not crash, and leaves the file as it was.
C39_NonObjectConfigRejected ==
    (cf.phase # "input" /\ NotAnObject(cf.before)) =>
        /\ cf.status = "error"
        /\ cf.after = cf.before

\* Setting ports on a file whose content is not a JSON object never writes
\* the file; it returns an error unless the content is the literal null, on
\* which it panics.
NonObjectConfigNeverWritten ==
    (cf.phase # "input" /\ NotAnObject(cf.before)) =>
        /\ cf.after = cf.before
        /\ cf.status = IF cf.before.kind = "null" /\ cf.io # "read_err"
                       THEN "panic" ELSE "error"

\* C10: on a config document that is a JSON object, whatever its two known
\* subtrees are, setting ports (s, m) with the file readable and writable
\* returns no error, leaves ServiceSettings.ListenAddress = ":s",
\* ServiceSettings.SiteURL = "http://localhost:s" and
\* MetricsSettings.ListenAddress = ":m", and the ports read back are (s, m).
C10_PortsSetOnAnyObject ==
    /\ (cf.phase \in {"set", "read"} /\ cf.before.kind = "object" /\ cf.io = "ok") =>
           /\ cf.status = "ok"
           /\ cf.after.kind = "object"
           /\ FieldsOf(cf.after.tree, "ServiceSettings") # EmptyMap
           /\ FieldsOf(cf.after.tree, "MetricsSettings") # EmptyMap
           /\ cf.after.tree["ServiceSettings"].f["ListenAddress"]
                  = JStr(":", cf.serverPort)
           /\ cf.after.tree["ServiceSettings"].f["SiteURL"]
                  = JStr("http://localhost:", cf.serverPort)
           /\ cf.after.tree["MetricsSettings"].f["ListenAddress"]
                  = JStr(":", cf.metricsPort)
    /\ (cf.phase = "read" /\ cf.before.kind = "object" /\ cf.io = "ok") =>
           cf.readBack = <<cf.serverPort, cf.metricsPort>>

\* Ports were set in the empty document {} and read back.
C10_Witness ==
    /\ cf.phase = "read" /\ cf.io = "ok"
    /\ cf.before = ObjectFile(EmptyMap, "compact")
    /\ cf.readBack = <<cf.serverPort, cf.metricsPort>>

====
